---------------------------- MODULE Spec2Model ----------------------------
(***************************************************************************)
(* Model of the AI Shelter observation client (shelter_ui).                *)
(*                                                                         *)
(*   - the zustand store of src/shelter_ui/src/stores/appStore.ts:         *)
(*     decision history, day buckets, merged read views, live polling;     *)
(*   - the Snapshot Client of src/unnamed/part_000 (services/api):         *)
(*     safeApiCall and getLiveState;                                       *)
(*   - the settlement effect of AIStatusPanel.tsx;                         *)
(*   - the step derivation, the playback timers and the detail overlay     *)
(*     of AIActionInfoStream.tsx;                                          *)
(*   - the efficiency conversion of getSystemStatus and runNextDay.        *)
(*                                                                         *)
(* JavaScript `undefined` object properties are modelled as record fields  *)
(* that are absent from the record's DOMAIN; `null` is the string Null.    *)
(* The recordedAt/timestamp field of a history record (Date.now()) is not  *)
(* modelled: no modelled operation reads it.                               *)
(***************************************************************************)
EXTENDS Integers, Sequences, FiniteSets, TLC

VARIABLES
    systemState,               \* store.systemState (the day field)
    proposals,                 \* store.proposals (in-flight collection)
    events,                    \* store.events (in-flight collection)
    voteAnalyses,              \* store.voteAnalyses
    history,                   \* store.history: day -> bucket
    aiDecisionHistory,         \* store.aiDecisionHistory: agent -> list
    lastSaveDay,               \* currentDay of the latest saveAIDecisionToHistory
    loading,                   \* store.loading
    error,                     \* store.error
    runNextPending,            \* run_next requests awaited by runNextDay
    fetchPending,              \* parts of a fetchData call not yet settled
    resetPending,              \* resetSystem awaits the /reset request
    backendState,              \* system state the backend answers with
    clientCall,                \* the Snapshot Client call that settled last
    autoRun,                   \* store.controlState.autoRun
    autoRunTimer,              \* window.autoRunTimer (0: null)
    autoTimers,                \* auto-run timers not yet fired, oldest first
    autoResuming,              \* auto-run callbacks whose runNextDay() returns
    liveState,                 \* store.liveState
    lastRunningState,          \* store.lastRunningState
    liveStatePollingInterval,  \* window.liveStatePollingInterval (0: null)
    intervalTimers,            \* interval timers the browser keeps alive
    liveRequests,              \* live_state requests in flight
    elapsedSinceStop,          \* ms since stopLivePolling, capped
    panelMounted,              \* AIStatusPanel is rendered
    effectDeps,                \* deps of the settlement effect, last render
    aiDecisions,               \* AIStatusPanel: cached resourceRequest per agent
    rotationIndex,             \* AIStatusPanel: rotationIndex
    currentDisplayAI,          \* AIStatusPanel: currentDisplayAI
    rotationTimer,             \* the pending 5000 ms timer's closure (<<>>: none)
    hideTimer,                 \* the 3000 ms timer of the settlement effect is pending
    rotationFired,             \* activeAIs[rotationIndex] read by the last callback
    ai,                        \* AIActionInfoStream: displayed agent
    decision,                  \* AIActionInfoStream: decision (useMemo)
    actionStream,              \* AIActionInfoStream: derived steps
    currentStep,               \* AIActionInfoStream: cursor
    liveAIState,               \* AIStatusPanel: snapshot entry of the shown agent
    staticMode,                \* AIActionInfoStream: staticMode prop
    streamMounted,             \* AIActionInfoStream is rendered
    advanceTimer,              \* handle kept by the advance-timer effect (0: none)
    typingTimer,               \* handle kept by the typing-timer effect (0: none)
    pendingTimers,             \* setTimeout timers of the stream not yet fired
    showAllSteps,              \* AIActionInfoStream: show-all toggle
    tooltip,                   \* AIActionInfoStream: overlay state (<<>>: null)
    viewport,                  \* window.innerWidth / window.innerHeight
    overlayEvent,              \* the DOM event the overlay handled last
    overlayEvents              \* number of DOM events the overlay handled

autoVars == <<autoRun, autoRunTimer, autoTimers, autoResuming>>
storeVars == <<systemState, proposals, events, voteAnalyses, history,
               loading, error, runNextPending, fetchPending, resetPending,
               backendState, clientCall, autoVars>>
pollVars == <<liveState, lastRunningState, liveStatePollingInterval,
              intervalTimers, liveRequests, elapsedSinceStop>>
rotationVars == <<rotationIndex, currentDisplayAI, rotationTimer, hideTimer,
                  rotationFired>>
panelVars == <<panelMounted, effectDeps, aiDecisions, rotationVars>>
overlayVars == <<tooltip, viewport, overlayEvent, overlayEvents>>
streamVars ==
    <<ai, decision, actionStream, currentStep, liveAIState, staticMode,
      streamMounted, advanceTimer, typingTimer, pendingTimers, showAllSteps,
      overlayVars>>

decisionVars == <<aiDecisionHistory, lastSaveDay>>

vars == <<storeVars, decisionVars, pollVars, panelVars, streamVars>>

Null == "null"

\* ------------------------------------------------------------------------
\* Bounds of the model and constants of the program
\* ------------------------------------------------------------------------

\* saveAIDecisionToHistory keeps at most this many records per agent.
MaxHistoryLen == 10

\* A day later than every day of a full persisted history list.
NewDay == 11

Agents == {"A", "B"}

Min(a, b) == IF a < b THEN a ELSE b
Max(a, b) == IF a > b THEN a ELSE b

\* ------------------------------------------------------------------------
\* History Merge Engine: per-agent decision history
\* ------------------------------------------------------------------------

\* `x || dflt` for an optional string property.
StrOr(rec, f, dflt) ==
    IF f \in DOMAIN rec /\ rec[f] # "" THEN rec[f] ELSE dflt

\* `x || dflt` for an optional numeric property.
NumOr(rec, f, dflt) ==
    IF f \in DOMAIN rec /\ rec[f] # 0 THEN rec[f] ELSE dflt

\* `x || dflt` for an optional array property (an empty array is truthy).
ArrOr(rec, f, dflt) ==
    IF f \in DOMAIN rec THEN rec[f] ELSE dflt

\* aiHistory.findIndex(h => h.day === currentDay); 0 stands for -1.
findIndex(aiHistory, currentDay) ==
    IF \E i \in 1..Len(aiHistory) : aiHistory[i].day = currentDay
    THEN CHOOSE i \in 1..Len(aiHistory) :
            /\ aiHistory[i].day = currentDay
            /\ \A j \in 1..(i - 1) : aiHistory[j].day # currentDay
    ELSE 0

newRecord(dec, currentDay) ==
    [day             |-> currentDay,
     thinking        |-> StrOr(dec, "thinking", ""),
     actions         |-> ArrOr(dec, "actions", <<>>),
     resourceRequest |-> NumOr(dec, "resourceRequest", 0),
     actionPoints    |-> NumOr(dec, "actionPoints", 0)]

\* Mutant of truncateHistory: the list is never cut.
truncateHistoryNever(updatedHistory) == updatedHistory

\* updatedHistory.slice(0, 10) when longer than 10.
truncateHistory(updatedHistory) ==
    IF Len(updatedHistory) > MaxHistoryLen
    THEN SubSeq(updatedHistory, 1, MaxHistoryLen)
    ELSE updatedHistory

\* Mutant of upsertDecision: the record is prepended even when the day has
\* a record already.
upsertDecisionPrepend(aiHistory, dec, currentDay) ==
    truncateHistory(<<newRecord(dec, currentDay)>> \o aiHistory)

\* The updater passed to set() by saveAIDecisionToHistory.
upsertDecision(aiHistory, dec, currentDay) ==
    LET existingIndex == findIndex(aiHistory, currentDay)
        rec == newRecord(dec, currentDay)
        updatedHistory ==
            IF existingIndex >= 1
            THEN [aiHistory EXCEPT ![existingIndex] = rec]
            ELSE <<rec>> \o aiHistory
    IN truncateHistory(updatedHistory)

\* The day a call works on: the day argument, or systemState.day when the
\* argument is omitted. dayArg is <<>> (omitted) or <<day>>.
effectiveDay(dayArg, sysDay) == IF dayArg # <<>> THEN dayArg[1] ELSE sysDay

\* Mutant of savedHistory: day 0 is not skipped.
savedHistoryDayZero(hist, sysDay, aiName, dec, dayArg) ==
    [hist EXCEPT ![aiName] =
        upsertDecision(hist[aiName], dec, effectiveDay(dayArg, sysDay))]

\* saveAIDecisionToHistory as a function of the store's aiDecisionHistory.
savedHistory(hist, sysDay, aiName, dec, dayArg) ==
    LET currentDay == effectiveDay(dayArg, sysDay)
    IN IF currentDay = 0
       THEN hist
       ELSE [hist EXCEPT ![aiName] = upsertDecision(hist[aiName], dec, currentDay)]

saveAIDecisionToHistory(aiName, dec, dayArg) ==
    /\ aiDecisionHistory' =
          savedHistory(aiDecisionHistory, systemState.day, aiName, dec, dayArg)
    /\ lastSaveDay' = <<effectiveDay(dayArg, systemState.day)>>

\* ------------------------------------------------------------------------
\* Data the simulation service may return
\* ------------------------------------------------------------------------

\* Largest day the service reports in the store specification.
MaxDay == 1

Proposal(id, createdAt, supporters, opposers) ==
    [id |-> id, createdAt |-> createdAt,
     supporters |-> supporters, opposers |-> opposers]

GameEvent(id, timestamp, description) ==
    [id |-> id, timestamp |-> timestamp, description |-> description]

\* Proposal lists of a /proposals or /run_next response: the same id may
\* come back with changed votes; the service lists the oldest first.
ProposalLists ==
    { <<Proposal("p1", 1, <<"A">>, <<>>), Proposal("p2", 2, <<>>, <<>>)>> }

EventLists ==
    { <<GameEvent("e2", 2, "second"), GameEvent("e1", 1, "amended")>> }

\* The collections of one /run_next response.
RunCollections ==
    { [proposals |-> <<Proposal("p1", 1, <<>>, <<>>)>>,
       events |-> <<GameEvent("e1", 1, "first")>>] }

\* Collections of mockDataGenerator: ids proposal-i and event-i.
generateProposals == <<Proposal("proposal-1", 1, <<"A">>, <<"A">>)>>

generateEvents == <<GameEvent("event-1", 1, "mock")>>

\* ------------------------------------------------------------------------
\* Store: analysis, day buckets, merged read views
\* ------------------------------------------------------------------------

\* One VoteAnalysis per proposal (analyzeVotingPatterns); the percentages
\* are functions of the two counts kept here.
voteAnalysisOf(proposal) ==
    [proposalId |-> proposal.id,
     totalVotes |-> Len(proposal.supporters) + Len(proposal.opposers),
     supportVotes |-> Len(proposal.supporters)]

analyzeVotingPatterns(props) ==
    [i \in 1..Len(props) |-> voteAnalysisOf(props[i])]

dayBucket(props, evts, analyses) ==
    [proposals |-> props, events |-> evts, voteAnalyses |-> analyses]

\* Mutant of savedDayHistory: an existing bucket is overwritten.
savedDayHistoryOverwrite(hist, currentDay, props, evts, analyses) ==
    IF currentDay = 0
    THEN hist
    ELSE [d \in DOMAIN hist \cup {currentDay} |->
            IF d = currentDay THEN dayBucket(props, evts, analyses) ELSE hist[d]]

\* The history map after saveCurrentDayToHistory() in a store whose
\* systemState.day, proposals, events and voteAnalyses are the arguments.
savedDayHistory(hist, currentDay, props, evts, analyses) ==
    IF currentDay = 0
    THEN hist
    ELSE IF currentDay \in DOMAIN hist
    THEN hist
    ELSE [d \in DOMAIN hist \cup {currentDay} |->
            IF d = currentDay
            THEN dayBucket(props, evts, analyses)
            ELSE hist[d]]

\* Map.set(item.id, item) on a Map kept as the sequence of its values in
\* insertion order: an existing key keeps its place and takes the new value.
mapSet(m, item) ==
    IF \E i \in 1..Len(m) : m[i].id = item.id
    THEN [i \in 1..Len(m) |-> IF m[i].id = item.id THEN item ELSE m[i]]
    ELSE Append(m, item)

\* list.forEach(item => map.set(item.id, item))
RECURSIVE mapSetAll(_, _)
mapSetAll(m, list) ==
    IF list = <<>> THEN m
    ELSE mapSetAll(mapSet(m, Head(list)), Tail(list))

\* Object.values(state.history): the buckets in ascending order of day.
RECURSIVE historyValues(_, _)
historyValues(hist, days) ==
    IF days = {} THEN <<>>
    ELSE LET d == CHOOSE x \in days : \A y \in days : x <= y
         IN <<hist[d]>> \o historyValues(hist, days \ {d})

\* The Map after every bucket's list (field f) has been set into it.
RECURSIVE mergeBuckets(_, _, _)
mergeBuckets(m, buckets, f) ==
    IF buckets = <<>> THEN m
    ELSE mergeBuckets(mapSetAll(m, Head(buckets)[f]), Tail(buckets), f)

\* Array.prototype.sort((a, b) => b[key] - a[key]): stable, descending.
RECURSIVE insertDesc(_, _, _)
insertDesc(sorted, item, key) ==
    IF sorted = <<>> THEN <<item>>
    ELSE IF Head(sorted)[key] >= item[key]
    THEN <<Head(sorted)>> \o insertDesc(Tail(sorted), item, key)
    ELSE <<item>> \o sorted

\* Mutant of sortDesc: the values are returned in the Map's order.
sortDescUnsorted(list, key) == list

RECURSIVE sortDesc(_, _)
sortDesc(list, key) ==
    IF list = <<>> THEN <<>>
    ELSE insertDesc(sortDesc(SubSeq(list, 1, Len(list) - 1), key),
                    list[Len(list)], key)

\* Mutant of proposalMap: the history is set after the current proposals.
proposalMapHistoryLast(hist, props) ==
    mergeBuckets(mapSetAll(<<>>, props), historyValues(hist, DOMAIN hist),
                 "proposals")

\* The Map of getAllProposals before sorting: history first, then current.
proposalMap(hist, props) ==
    mapSetAll(mergeBuckets(<<>>, historyValues(hist, DOMAIN hist), "proposals"),
              props)

eventMap(hist, evts) ==
    mapSetAll(mergeBuckets(<<>>, historyValues(hist, DOMAIN hist), "events"),
              evts)

getAllProposals == sortDesc(proposalMap(history, proposals), "createdAt")

getAllEvents == sortDesc(eventMap(history, events), "timestamp")

\* ------------------------------------------------------------------------
\* Snapshot Client (services/api)
\* ------------------------------------------------------------------------

\* The outcome of a request: [ok |-> FALSE] is a transport failure (network
\* error or the axios timeout); [ok |-> TRUE] carries a null payload;
\* [ok |-> TRUE, data |-> d] carries d.
Failed == [ok |-> FALSE]

\* safeApiCall: the value of apiCall, or fallback when it throws.
safeApiCall(outcome, value, fallback) ==
    IF outcome.ok THEN value ELSE fallback

\* The default of getLiveState has no current_acting_ai property.
defaultLiveState ==
    [day |-> 0, running |-> FALSE, current_ai_states |-> <<>>]

\* shelterAPI.getLiveState: response.data.data || default, default on failure.
getLiveState(outcome) ==
    safeApiCall(outcome,
                IF "data" \in DOMAIN outcome THEN outcome.data ELSE defaultLiveState,
                defaultLiveState)

defaultRunResult ==
    [system_state |-> [day |-> 0], events |-> <<>>, proposals |-> <<>>]

\* shelterAPI.runNextDay: the response's data, the default value when the
\* payload is null or the request fails.
apiRunNextDay(outcome) ==
    safeApiCall(outcome,
                IF "data" \in DOMAIN outcome THEN outcome.data ELSE defaultRunResult,
                defaultRunResult)

defaultSystemStatus == [day |-> 0]

\* shelterAPI.getSystemStatus (the day field: data.day || 0).
getSystemStatus(outcome) ==
    safeApiCall(outcome,
                IF "data" \in DOMAIN outcome
                THEN [day |-> NumOr(outcome.data, "day", 0)]
                ELSE defaultSystemStatus,
                defaultSystemStatus)

\* shelterAPI.getProposals / getEventHistory: response.data.data || [].
getList(outcome) ==
    safeApiCall(outcome,
                IF "data" \in DOMAIN outcome THEN outcome.data ELSE <<>>,
                <<>>)

\* ------------------------------------------------------------------------
\* AIStatusPanel: settlement effect
\* ------------------------------------------------------------------------

\* Mutant of historyDay: the day of the store's systemState is used.
historyDaySystem(live) == Max(1, NumOr(systemState, "day", 1))

\* const historyDay = Math.max(1, liveState.day || 1)
historyDay(live) == Max(1, NumOr(live, "day", 1))

\* Mutant of calibratedRequest: the live value is written as it is.
calibratedRequestLiveOnly(aiState, cache) ==
    NumOr(aiState, "resourceRequest", 0)

\* The resource request written at settlement: the live value, or the one
\* of the cached AIDecision when the live value is zero or missing.
calibratedRequest(aiState, cache) ==
    LET resourceRequest == NumOr(aiState, "resourceRequest", 0)
    IN IF resourceRequest = 0 /\ cache[aiState.aiName] # 0
       THEN cache[aiState.aiName]
       ELSE resourceRequest

\* The decision object the effect passes to saveAIDecisionToHistory.
settlementDecision(aiState, cache) ==
    [thinking        |-> StrOr(aiState, "decision", ""),
     actions         |-> ArrOr(aiState, "actions", <<>>),
     resourceRequest |-> calibratedRequest(aiState, cache),
     actionPoints    |-> NumOr(aiState, "actionPoints", 0)]

\* liveState.current_ai_states.forEach(aiState => saveAIDecisionToHistory(
\*   aiState.aiName, {...}, historyDay))
RECURSIVE settleAll(_, _, _, _, _)
settleAll(hist, sysDay, states, day, cache) ==
    IF states = <<>> THEN hist
    ELSE settleAll(savedHistory(hist, sysDay, Head(states).aiName,
                                settlementDecision(Head(states), cache), <<day>>),
                   sysDay, Tail(states), day, cache)

\* Mutant of settlementEffect: lastRunningState is not consulted.
settlementEffectAnyTick(hist, sysDay, live, lastRunning, cache) ==
    IF live.running
    THEN hist
    ELSE IF Len(live.current_ai_states) > 0
    THEN settleAll(hist, sysDay, live.current_ai_states, historyDay(live), cache)
    ELSE hist

\* The body of the effect, run with the values of one render.
settlementEffect(hist, sysDay, live, lastRunning, cache) ==
    IF live.running
    THEN hist
    ELSE IF lastRunning /\ Len(live.current_ai_states) > 0
    THEN settleAll(hist, sysDay, live.current_ai_states, historyDay(live), cache)
    ELSE hist

\* The dependency list of the effect.
settlementDeps(live) ==
    <<live.running,
      IF "current_acting_ai" \in DOMAIN live
      THEN live.current_acting_ai ELSE "undefined">>

\* aiDecisionHistory after the panel has rendered store values (live,
\* lastRunning): the effect runs when the panel is mounted and a dependency
\* differs from the previous render.
historyAfterRender(hist, live, lastRunning) ==
    IF panelMounted /\ settlementDeps(live) # effectDeps
    THEN settlementEffect(hist, systemState.day, live, lastRunning, aiDecisions)
    ELSE hist

depsAfterRender(live) ==
    IF panelMounted THEN settlementDeps(live) ELSE effectDeps

\* The effect calls saveAIDecisionToHistory when it settles a turn.
effectSaves(live, lastRunning) ==
    ~live.running /\ lastRunning /\ Len(live.current_ai_states) > 0

saveDayAfterRender(live, lastRunning) ==
    IF panelMounted /\ settlementDeps(live) # effectDeps
       /\ effectSaves(live, lastRunning)
    THEN <<historyDay(live)>>
    ELSE lastSaveDay

\* ------------------------------------------------------------------------
\* Reconciliation Loop: pollLiveState, startLivePolling, stopLivePolling
\* ------------------------------------------------------------------------

\* setInterval(..., 2000)
PollInterval == 2000

\* axios timeout: a request may stay in flight this long.
ApiTimeout == 300000

\* Most live_state requests in flight at once in the model.
MaxInFlight == 2

\* The part of pollLiveState before its await: the request is issued.
pollLiveStateCall ==
    /\ liveRequests < MaxInFlight
    /\ liveRequests' = liveRequests + 1

\* The part of pollLiveState after its await: getLiveState has resolved
\* (safeApiCall never rejects), the store is updated in one set(), the
\* panel renders the new state.
\* Mutant of pollLiveStateSettled: lastRunningState is read after liveState
\* has been replaced.
pollLiveStateSettledNewRunning(outcome) ==
    /\ liveRequests > 0
    /\ liveRequests' = liveRequests - 1
    /\ liveState' = getLiveState(outcome)
    /\ lastRunningState' = liveState'.running
    /\ aiDecisionHistory' =
          historyAfterRender(aiDecisionHistory, liveState', lastRunningState')
    /\ lastSaveDay' = saveDayAfterRender(liveState', lastRunningState')
    /\ effectDeps' = depsAfterRender(liveState')

pollLiveStateSettled(outcome) ==
    /\ liveRequests > 0
    /\ liveRequests' = liveRequests - 1
    /\ lastRunningState' = liveState.running
    /\ liveState' = getLiveState(outcome)
    /\ aiDecisionHistory' =
          historyAfterRender(aiDecisionHistory, liveState', lastRunningState')
    /\ lastSaveDay' = saveDayAfterRender(liveState', lastRunningState')
    /\ effectDeps' = depsAfterRender(liveState')

\* A fresh handle for setInterval.
newTimer(timers) ==
    CHOOSE t \in 1..(Cardinality(timers) + 1) : t \notin timers

\* Mutant of startLivePolling: the previous interval is not cleared.
startLivePollingNoClear ==
    LET t == newTimer(intervalTimers)
    IN /\ intervalTimers' = intervalTimers \cup {t}
       /\ liveStatePollingInterval' = t
       /\ elapsedSinceStop' = 0
       /\ pollLiveStateCall

startLivePolling ==
    LET cleared == IF liveStatePollingInterval # 0
                   THEN intervalTimers \ {liveStatePollingInterval}
                   ELSE intervalTimers
        t == newTimer(cleared)
    IN /\ intervalTimers' = cleared \cup {t}
       /\ liveStatePollingInterval' = t
       /\ elapsedSinceStop' = 0
       /\ pollLiveStateCall

stopLivePolling ==
    IF liveStatePollingInterval # 0
    THEN /\ intervalTimers' = intervalTimers \ {liveStatePollingInterval}
         /\ liveStatePollingInterval' = 0
         /\ elapsedSinceStop' = 0
    ELSE UNCHANGED <<intervalTimers, liveStatePollingInterval, elapsedSinceStop>>

\* ------------------------------------------------------------------------
\* Store operations
\* ------------------------------------------------------------------------

initialSystemState == [day |-> 0]

\* liveState of the store's initial state and of resetSystem.
initialLiveState ==
    [day |-> 0, running |-> FALSE, current_acting_ai |-> Null,
     current_ai_states |-> <<>>]

emptyDecisionHistory == [a \in Agents |-> <<>>]

emptyHistory == <<>>

\* The requests fetchData awaits with Promise.allSettled (the /ai_list
\* request fills aiList, which the model does not keep).
FetchParts == {"systemState", "proposals", "events"}

\* fetchPending of a fetchData call just started: its requests, and "done"
\* for the code after Promise.allSettled.
fetchStarted == FetchParts \cup {"done"}

\* Most run_next requests awaited at once in the model.
MaxRunNext == 1

\* Most votes a proposal collects in the model.
MaxVotes == 1

\* The synchronous part of fetchData.
fetchDataCall ==
    /\ fetchPending = {}
    /\ loading' = TRUE
    /\ error' = Null
    /\ fetchPending' = fetchStarted

fetchData ==
    /\ fetchDataCall
    /\ UNCHANGED <<systemState, proposals, events, voteAnalyses, history,
                   runNextPending, resetPending, backendState, clientCall, autoVars>>
    /\ UNCHANGED <<decisionVars, pollVars, panelVars, streamVars>>

fetchSystemState(outcome) ==
    /\ "systemState" \in fetchPending
    /\ fetchPending' = fetchPending \ {"systemState"}
    /\ systemState' = getSystemStatus(outcome)
    /\ UNCHANGED <<proposals, events, voteAnalyses, history, loading, error,
                   runNextPending, resetPending, backendState, clientCall, autoVars>>
    /\ UNCHANGED <<decisionVars, pollVars, panelVars, streamVars>>

fetchProposals(outcome) ==
    /\ "proposals" \in fetchPending
    /\ fetchPending' = fetchPending \ {"proposals"}
    /\ proposals' = getList(outcome)
    /\ UNCHANGED <<systemState, events, voteAnalyses, history, loading, error,
                   runNextPending, resetPending, backendState, clientCall, autoVars>>
    /\ UNCHANGED <<decisionVars, pollVars, panelVars, streamVars>>

fetchEvents(outcome) ==
    /\ "events" \in fetchPending
    /\ fetchPending' = fetchPending \ {"events"}
    /\ events' = getList(outcome)
    /\ UNCHANGED <<systemState, proposals, voteAnalyses, history, loading, error,
                   runNextPending, resetPending, backendState, clientCall, autoVars>>
    /\ UNCHANGED <<decisionVars, pollVars, panelVars, streamVars>>

\* fetchData after Promise.allSettled: loading off, analyses recomputed.
fetchDataSettled ==
    /\ fetchPending = {"done"}
    /\ fetchPending' = {}
    /\ loading' = FALSE
    /\ voteAnalyses' = analyzeVotingPatterns(proposals)
    /\ UNCHANGED <<systemState, proposals, events, history, error,
                   runNextPending, resetPending, backendState, clientCall, autoVars>>
    /\ UNCHANGED <<decisionVars, pollVars, panelVars, streamVars>>

saveCurrentDayToHistory ==
    /\ history' = savedDayHistory(history, systemState.day, proposals, events,
                                  voteAnalyses)
    /\ UNCHANGED <<systemState, proposals, events, voteAnalyses, loading, error,
                   runNextPending, fetchPending, resetPending,
                   backendState, clientCall, autoVars>>
    /\ UNCHANGED <<decisionVars, pollVars, panelVars, streamVars>>

\* The store's writes of runNextDay up to its await.
runNextDayCall ==
    /\ runNextPending' = runNextPending + 1
    /\ history' = savedDayHistory(history, systemState.day, proposals, events,
                                  voteAnalyses)
    /\ loading' = TRUE

\* runNextDay up to its await: the old day is saved, the request issued.
runNextDay ==
    /\ runNextPending < MaxRunNext
    /\ runNextDayCall
    /\ UNCHANGED <<systemState, proposals, events, voteAnalyses, error,
                   fetchPending, resetPending, backendState, clientCall, autoVars>>
    /\ UNCHANGED <<decisionVars, pollVars, panelVars, streamVars>>

\* runNextDay after its await: the result is stored, the new day saved
\* (with the analyses of before the run), the analyses recomputed and a
\* live_state poll forced.
runNextDayStored(outcome) ==
    LET result == apiRunNextDay(outcome)
        newState == IF "system_state" \in DOMAIN result
                    THEN result.system_state
                    ELSE [day |-> systemState.day + 1]
    IN /\ runNextPending > 0
       /\ newState.day <= MaxDay
       /\ runNextPending' = runNextPending - 1
       /\ systemState' = newState
       /\ events' = ArrOr(result, "events", <<>>)
       /\ proposals' = ArrOr(result, "proposals", <<>>)
       /\ loading' = FALSE
       /\ history' = savedDayHistory(history, newState.day, proposals', events',
                                     voteAnalyses)
       /\ voteAnalyses' = analyzeVotingPatterns(proposals')
       /\ pollLiveStateCall

runNextDaySettled(outcome) ==
    /\ runNextDayStored(outcome)
    /\ UNCHANGED <<error, fetchPending, resetPending, backendState,
                   clientCall, autoVars>>
    /\ UNCHANGED <<decisionVars, liveState, lastRunningState,
                   liveStatePollingInterval, intervalTimers, elapsedSinceStop>>
    /\ UNCHANGED <<panelVars, streamVars>>

\* proposals.map(...) of castVote for one proposal.
votedProposal(proposal, aiName, vote) ==
    [proposal EXCEPT
        !.supporters = IF vote = "support"
                       THEN Append(proposal.supporters, aiName)
                       ELSE SelectSeq(proposal.supporters, LAMBDA n : n # aiName),
        !.opposers = IF vote = "oppose"
                     THEN Append(proposal.opposers, aiName)
                     ELSE SelectSeq(proposal.opposers, LAMBDA n : n # aiName)]

\* castVote after its await (the request changes nothing in the store; the
\* voteHistory entry appended with each vote is not kept).
castVote(proposalId, aiName, vote) ==
    /\ \A i \in 1..Len(proposals) :
          Len(proposals[i].supporters) + Len(proposals[i].opposers) < MaxVotes
    /\ proposals' = [i \in 1..Len(proposals) |->
                       IF proposals[i].id = proposalId
                       THEN votedProposal(proposals[i], aiName, vote)
                       ELSE proposals[i]]
    /\ voteAnalyses' = analyzeVotingPatterns(proposals')
    /\ UNCHANGED <<systemState, events, history, loading, error,
                   runNextPending, fetchPending, resetPending,
                   backendState, clientCall, autoVars>>
    /\ UNCHANGED <<decisionVars, pollVars, panelVars, streamVars>>

\* The set({...}) shared by resetSystem and resetLocalStorage, followed by
\* the fetchData() both start; the panel renders the initial liveState.
resetToInitial(live) ==
    /\ fetchPending = {}
    /\ systemState' = initialSystemState
    /\ proposals' = <<>>
    /\ events' = <<>>
    /\ voteAnalyses' = <<>>
    /\ liveState' = live
    /\ lastRunningState' = FALSE
    /\ history' = emptyHistory
    /\ aiDecisionHistory' = historyAfterRender(emptyDecisionHistory, live, FALSE)
    /\ lastSaveDay' = saveDayAfterRender(live, FALSE)
    /\ effectDeps' = depsAfterRender(live)
    /\ loading' = TRUE
    /\ error' = Null
    /\ fetchPending' = fetchStarted
    /\ UNCHANGED <<liveStatePollingInterval, intervalTimers, liveRequests,
                   elapsedSinceStop, panelMounted, aiDecisions, rotationVars,
                   streamVars>>

\* resetSystem up to its await.
resetSystem ==
    /\ ~resetPending
    /\ resetPending' = TRUE
    /\ UNCHANGED <<backendState, clientCall, autoVars>>
    /\ loading' = TRUE
    /\ UNCHANGED <<systemState, proposals, events, voteAnalyses, history, error,
                   runNextPending, fetchPending>>
    /\ UNCHANGED <<decisionVars, pollVars, panelVars, streamVars>>

\* resetSystem after its await.
resetSystemSettled ==
    /\ resetPending
    /\ resetPending' = FALSE
    /\ UNCHANGED <<backendState, clientCall, autoVars>>
    /\ resetToInitial(initialLiveState)
    /\ UNCHANGED <<runNextPending, backendState, clientCall, autoVars>>

\* The liveState resetLocalStorage sets has no current_acting_ai property.
resetLocalStorage ==
    /\ resetToInitial(defaultLiveState)
    /\ UNCHANGED <<runNextPending, resetPending, backendState, clientCall, autoVars>>

\* loadMockData: generated state, both histories cleared.
loadMockData(mockDay, mockProposals, mockEvents) ==
    /\ systemState' = [day |-> mockDay]
    /\ proposals' = mockProposals
    /\ events' = mockEvents
    /\ history' = emptyHistory
    /\ aiDecisionHistory' = emptyDecisionHistory
    /\ loading' = FALSE
    /\ lastSaveDay' = lastSaveDay
    /\ error' = Null
    /\ voteAnalyses' = analyzeVotingPatterns(mockProposals)
    /\ UNCHANGED <<runNextPending, fetchPending, resetPending,
                   backendState, clientCall, autoVars>>
    /\ UNCHANGED <<pollVars, panelVars, streamVars>>

\* ------------------------------------------------------------------------
\* AIStatusPanel life cycle and the passing of time
\* ------------------------------------------------------------------------

\* The panel mounts: the polling effect calls startLivePolling, then the
\* settlement effect runs with the store's current values.
mountPanel ==
    /\ ~panelMounted
    /\ panelMounted' = TRUE
    /\ startLivePolling
    /\ aiDecisionHistory' =
          settlementEffect(aiDecisionHistory, systemState.day, liveState,
                           lastRunningState, aiDecisions)
    /\ lastSaveDay' = IF effectSaves(liveState, lastRunningState)
                      THEN <<historyDay(liveState)>> ELSE lastSaveDay
    /\ effectDeps' = settlementDeps(liveState)
    /\ UNCHANGED <<storeVars, liveState, lastRunningState, aiDecisions,
                   rotationVars, streamVars>>

\* The panel unmounts: the cleanup of the polling effect calls
\* stopLivePolling.
unmountPanel ==
    /\ panelMounted
    /\ panelMounted' = FALSE
    /\ stopLivePolling
    /\ UNCHANGED <<storeVars, decisionVars, liveState, lastRunningState,
                   liveRequests, effectDeps, aiDecisions, rotationVars,
                   streamVars>>

\* 2000 ms pass while an interval timer is alive: its callback calls
\* pollLiveState, whether or not an earlier request has returned.
intervalTick ==
    /\ intervalTimers # {}
    /\ pollLiveStateCall
    /\ UNCHANGED <<storeVars, decisionVars, liveState, lastRunningState,
                   liveStatePollingInterval, intervalTimers, elapsedSinceStop,
                   panelVars, streamVars>>

\* 2000 ms pass while no interval timer is alive.
elapseStopped ==
    /\ intervalTimers = {}
    /\ elapsedSinceStop < PollInterval
    /\ elapsedSinceStop' = elapsedSinceStop + PollInterval
    /\ UNCHANGED <<storeVars, decisionVars, liveState, lastRunningState,
                   liveStatePollingInterval, intervalTimers, liveRequests,
                   panelVars, streamVars>>

\* A live_state request returns (within ApiTimeout) or fails.
pollLiveState(outcome) ==
    /\ pollLiveStateSettled(outcome)
    /\ UNCHANGED <<storeVars, liveStatePollingInterval, intervalTimers,
                   elapsedSinceStop, panelMounted, aiDecisions, rotationVars,
                   streamVars>>

\* ------------------------------------------------------------------------
\* Initial states
\* ------------------------------------------------------------------------

noCachedDecisions == [a \in Agents |-> 0]

\* No call of the Snapshot Client has settled yet.
noCall == [name |-> "none"]

\* controlState.autoRun of the store's initial state; no timer yet.
InitAutoRun ==
    /\ autoRun = FALSE
    /\ autoRunTimer = 0
    /\ autoTimers = <<>>
    /\ autoResuming = 0

\* The store as created, before the persisted state is merged in.
InitStore ==
    /\ systemState = initialSystemState
    /\ proposals = <<>>
    /\ events = <<>>
    /\ voteAnalyses = <<>>
    /\ history = emptyHistory
    /\ loading = FALSE
    /\ error = Null
    /\ runNextPending = 0
    /\ fetchPending = {}
    /\ resetPending = FALSE
    /\ backendState = [day |-> 0]
    /\ clientCall = noCall
    /\ InitAutoRun

InitDecisions ==
    /\ aiDecisionHistory = emptyDecisionHistory
    /\ lastSaveDay = <<>>

InitPoll ==
    /\ liveState = initialLiveState
    /\ lastRunningState = FALSE
    /\ liveStatePollingInterval = 0
    /\ intervalTimers = {}
    /\ liveRequests = 0
    /\ elapsedSinceStop = 0

InitPanel ==
    /\ panelMounted = FALSE
    /\ effectDeps = settlementDeps(initialLiveState)
    /\ aiDecisions = noCachedDecisions
    /\ rotationIndex = 0
    /\ currentDisplayAI = Null
    /\ rotationTimer = <<>>
    /\ hideTimer = FALSE
    /\ rotationFired = Null

\* The overlay state null is the function with the empty domain; an open
\* overlay is a record, its optional properties are fields that may be
\* absent.
noTooltip == <<>>

InitOverlay ==
    /\ tooltip = noTooltip
    /\ viewport = [width |-> 1024, height |-> 768]
    /\ overlayEvent = [type |-> "none"]
    /\ overlayEvents = 0

InitStream ==
    /\ ai = [name |-> "A", status |-> "idle"]
    /\ decision = [thinking |-> "", actions |-> <<>>]
    /\ actionStream = <<>>
    /\ currentStep = 0
    /\ liveAIState = [aiName |-> "A"]
    /\ staticMode = FALSE
    /\ streamMounted = FALSE
    /\ advanceTimer = 0
    /\ typingTimer = 0
    /\ pendingTimers = {}
    /\ showAllSteps = FALSE
    /\ InitOverlay

\* ------------------------------------------------------------------------
\* SpecHistory: the per-agent decision history under arbitrary calls
\* ------------------------------------------------------------------------

\* Decision objects passed to saveAIDecisionToHistory: a complete one, and
\* one whose thinking, actions and resourceRequest are undefined.
fullDecision ==
    [thinking |-> "plan", actions |-> <<[type |-> "vote"]>>,
     resourceRequest |-> 40, actionPoints |-> 3]

sparseDecision == [actionPoints |-> 0]

DecisionInputs == {fullDecision, sparseDecision}

\* A history list the persist middleware restores: MaxHistoryLen settled
\* days, the latest first.
persistedList ==
    [i \in 1..MaxHistoryLen |-> newRecord(fullDecision, MaxHistoryLen + 1 - i)]

\* Day arguments of a call: omitted, day 0, an old day, a new day.
DayArgs == {<<>>, <<0>>, <<1>>, <<NewDay>>}

\* Days systemState.day takes: the initial one and the new day.
SystemDays == {0, NewDay}

InitHistory ==
    /\ InitStore /\ InitPoll /\ InitPanel /\ InitStream
    /\ lastSaveDay = <<>>
    /\ aiDecisionHistory \in
          {emptyDecisionHistory, [a \in Agents |-> persistedList]}

\* A call of the store's saveAIDecisionToHistory.
recordAgentDecision ==
    \E aiName \in Agents, dec \in DecisionInputs, dayArg \in DayArgs :
        /\ saveAIDecisionToHistory(aiName, dec, dayArg)
        /\ UNCHANGED <<storeVars, pollVars, panelVars, streamVars>>

NextHistory ==
    \/ recordAgentDecision
    \/ resetLocalStorage
    \/ \E d \in SystemDays :
          fetchSystemState([ok |-> TRUE, data |-> [day |-> d]])
    \/ loadMockData(NewDay, generateProposals, generateEvents)

SpecHistory == InitHistory /\ [][NextHistory]_vars

\* Days of the records of a list, in list order.
daysOf(list) == [i \in 1..Len(list) |-> list[i].day]

\* Positions of the records of day d in a list.
positionsOf(list, d) == {i \in 1..Len(list) : list[i].day = d}

\* The step is a saveAIDecisionToHistory(aiName, dec, dayArg) call.
isSaveStep(aiName, dec, dayArg) ==
    /\ lastSaveDay' = <<effectiveDay(dayArg, systemState.day)>>
    /\ aiDecisionHistory' =
          savedHistory(aiDecisionHistory, systemState.day, aiName, dec, dayArg)

\* C1: every agent's decision history has at most 10 records, after any
\* sequence of saveAIDecisionToHistory calls interleaved with the store
\* operations that touch the history.
C1_HistoryAtMostTen ==
    \A a \in Agents : Len(aiDecisionHistory[a]) <= 10

\* A full list received a record of a new day: the oldest was evicted.
C1_Witness ==
    \E a \in Agents :
        /\ Len(aiDecisionHistory[a]) = 10
        /\ aiDecisionHistory[a][1].day = NewDay
        /\ positionsOf(aiDecisionHistory[a], 1) = {}

\* No list holds two records of the same day.
noDuplicateDays ==
    \A a \in Agents : \A i, j \in 1..Len(aiDecisionHistory[a]) :
        aiDecisionHistory[a][i].day = aiDecisionHistory[a][j].day => i = j

\* A call for agent a and day d >= 1 leaves exactly one record of day d,
\* carrying the fields of the call; a record of day d that existed is
\* replaced where it was and nothing else in the list changes.
upsertsInPlace(a, dec, dayArg) ==
    LET d == effectiveDay(dayArg, systemState.day)
        old == aiDecisionHistory[a]
        new == aiDecisionHistory'[a]
    IN (isSaveStep(a, dec, dayArg) /\ d >= 1) =>
        /\ Cardinality(positionsOf(new, d)) = 1
        /\ \A i \in positionsOf(new, d) : \A f \in DOMAIN dec : new[i][f] = dec[f]
        /\ positionsOf(old, d) # {} =>
              /\ positionsOf(new, d) = positionsOf(old, d)
              /\ Len(new) = Len(old)
              /\ \A j \in 1..Len(old) : j \notin positionsOf(old, d) => new[j] = old[j]

\* C2: a second saveAIDecisionToHistory call for the same agent and day
\* replaces the record of that day where it is, with the fields of the
\* second call; no list ever holds two records of one day.
C2_SameDayReplacedInPlace ==
    /\ []noDuplicateDays
    /\ [][\A a \in Agents, dec \in DecisionInputs, dayArg \in DayArgs :
             upsertsInPlace(a, dec, dayArg)]_vars

\* The record of day 1, last of a full persisted list, was replaced in
\* place by a call with the sparse decision.
C2_Witness ==
    \E a \in Agents :
        /\ Len(aiDecisionHistory[a]) = 10
        /\ aiDecisionHistory[a][10].day = 1
        /\ aiDecisionHistory[a][10].thinking = ""
        /\ aiDecisionHistory[a][9] = newRecord(fullDecision, 2)

noDayZeroRecord ==
    \A a \in Agents : \A i \in 1..Len(aiDecisionHistory[a]) :
        aiDecisionHistory[a][i].day # 0

\* C9: no history record has day 0; a saveAIDecisionToHistory call whose
\* day is 0 (given as 0, or omitted while systemState.day is 0) leaves
\* aiDecisionHistory unchanged.
C9_DayZeroIsNoOp ==
    /\ []noDayZeroRecord
    /\ [][\A a \in Agents, dec \in DecisionInputs, dayArg \in DayArgs :
             (isSaveStep(a, dec, dayArg)
                /\ effectiveDay(dayArg, systemState.day) = 0)
             => aiDecisionHistory' = aiDecisionHistory]_vars

\* A call with day 0 was made on a store that holds records.
C9_Witness ==
    /\ lastSaveDay = <<0>>
    /\ \E a \in Agents : Len(aiDecisionHistory[a]) > 0

\* ------------------------------------------------------------------------
\* SpecStore: day buckets and merged read views under the store operations
\* ------------------------------------------------------------------------

StatusOutcomes ==
    {Failed, [ok |-> TRUE]} \cup
    {[ok |-> TRUE, data |-> [day |-> d]] : d \in 0..MaxDay}

ListOutcomes(lists) ==
    {Failed} \cup {[ok |-> TRUE, data |-> l] : l \in lists}

\* Outcomes of /run_next in a store at day d: a failure, a null payload, the
\* next day's state, and a payload without system_state.
RunOutcomes(d) ==
    {Failed, [ok |-> TRUE]} \cup
    {[ok |-> TRUE,
      data |-> [system_state |-> [day |-> d + 1], events |-> c.events,
                proposals |-> c.proposals]] : c \in RunCollections} \cup
    {[ok |-> TRUE, data |-> [events |-> <<>>, proposals |-> <<>>]]}

InitStoreSpec ==
    InitStore /\ InitDecisions /\ InitPoll /\ InitPanel /\ InitStream

NextStore ==
    \/ fetchData
    \/ \E o \in StatusOutcomes : fetchSystemState(o)
    \/ \E o \in ListOutcomes(ProposalLists) : fetchProposals(o)
    \/ \E o \in ListOutcomes(EventLists) : fetchEvents(o)
    \/ fetchDataSettled
    \/ saveCurrentDayToHistory
    \/ runNextDay
    \/ \E o \in RunOutcomes(systemState.day) : runNextDaySettled(o)
    \/ \E vote \in {"support", "oppose"} : castVote("p1", "User", vote)
    \/ resetSystem
    \/ resetSystemSettled
    \/ resetLocalStorage
    \/ \E d \in 1..MaxDay : loadMockData(d, generateProposals, generateEvents)
    \/ pollLiveState(Failed)

SpecStore == InitStoreSpec /\ [][NextStore]_vars

idsOf(list) == {list[i].id : i \in 1..Len(list)}

\* Ids found in the buckets of the history, for field f of the buckets.
historyIds(f) == UNION {idsOf(history[d][f]) : d \in DOMAIN history}

\* The merged view has every id once and, for an id of the current
\* collection, the current entry.
mergedCurrentFirst(view, current, f) ==
    /\ \A i, j \in 1..Len(view) : view[i].id = view[j].id => i = j
    /\ \A k \in 1..Len(current) :
          current[k].id \in historyIds(f) =>
              \E i \in 1..Len(view) : view[i] = current[k]

\* C3: getAllProposals() and getAllEvents() return no id twice, and for an
\* id that is both in a history bucket and in the current collection they
\* return the current entry.
C3_MergedViewsUniqueCurrentWins ==
    /\ mergedCurrentFirst(getAllProposals, proposals, "proposals")
    /\ mergedCurrentFirst(getAllEvents, events, "events")

\* A proposal and an event are in a bucket and, with other field values,
\* in the current collections.
C3_Witness ==
    /\ \E d \in DOMAIN history :
          \E i \in 1..Len(history[d].proposals), k \in 1..Len(proposals) :
             /\ history[d].proposals[i].id = proposals[k].id
             /\ history[d].proposals[i] # proposals[k]
    /\ \E d \in DOMAIN history :
          \E i \in 1..Len(history[d].events), k \in 1..Len(events) :
             /\ history[d].events[i].id = events[k].id
             /\ history[d].events[i] # events[k]

\* A step keeps every bucket it does not drop, and a bucket it creates is
\* the one of the store's day (>= 1), filled with the in-flight
\* collections of the moment saveCurrentDayToHistory is called.
bucketsWrittenOnce ==
    /\ \A d \in DOMAIN history \cap DOMAIN history' : history'[d] = history[d]
    /\ \A d \in DOMAIN history' \ DOMAIN history :
          /\ d >= 1
          /\ \/ d = systemState.day
                /\ history'[d] = dayBucket(proposals, events, voteAnalyses)
             \/ d = systemState'.day
                /\ history'[d] = dayBucket(proposals', events', voteAnalyses)

\* The step is a call of saveCurrentDayToHistory for a day with a bucket.
savesExistingDay ==
    /\ systemState.day \in DOMAIN history
    /\ history' = savedDayHistory(history, systemState.day, proposals, events,
                                  voteAnalyses)

\* C8: saveCurrentDayToHistory creates the bucket of systemState.day only
\* when the day is >= 1 and has no bucket; a call for a day with a bucket
\* leaves history unchanged, so a bucket keeps the content of the first
\* call for its day.
C8_BucketFirstWriteWins ==
    /\ [](0 \notin DOMAIN history)
    /\ [][bucketsWrittenOnce /\ (savesExistingDay => history' = history)]_vars

\* The current day has a bucket whose proposals differ from the in-flight
\* ones, and runNextDay has called saveCurrentDayToHistory again.
C8_Witness ==
    /\ systemState.day \in DOMAIN history
    /\ history[systemState.day].proposals # proposals
    /\ runNextPending > 0

\* ------------------------------------------------------------------------
\* SpecPoll: the Reconciliation Loop and the settlement effect of the panel
\* ------------------------------------------------------------------------

\* The day of the turn the simulation service reports while the store's
\* systemState.day is already one further.
SettledDay == 6

\* Entries of current_ai_states: a complete one, and one that carries only
\* the agent's name.
stateOfA ==
    [aiName |-> "A", decision |-> "plan", actions |-> <<[type |-> "vote"]>>,
     resourceRequest |-> 40, actionPoints |-> 3]

stateOfB == [aiName |-> "B"]

\* Payloads of a /live_state response.
LiveStates ==
    {[day |-> d, running |-> r, current_acting_ai |-> c, current_ai_states |-> st] :
        d \in {0, SettledDay}, r \in BOOLEAN, c \in {Null, "A"},
        st \in {<<>>, <<stateOfA, stateOfB>>}}

\* Outcomes of a /live_state request: a transport failure, a null payload,
\* a payload.
LiveOutcomes ==
    {Failed, [ok |-> TRUE]} \cup {[ok |-> TRUE, data |-> l] : l \in LiveStates}

\* The store after the persisted state is merged in: systemState is
\* persisted (a fresh store, or one left at day SettledDay + 1), liveState
\* is not.
InitPollSpec ==
    /\ systemState \in {initialSystemState, [day |-> SettledDay + 1]}
    /\ proposals = <<>> /\ events = <<>> /\ voteAnalyses = <<>>
    /\ history = emptyHistory
    /\ loading = FALSE /\ error = Null
    /\ runNextPending = 0 /\ fetchPending = {} /\ resetPending = FALSE
    /\ backendState = [day |-> 0]
    /\ clientCall = noCall
    /\ InitAutoRun
    /\ InitDecisions /\ InitPoll /\ InitPanel /\ InitStream

NextPoll ==
    \/ mountPanel
    \/ unmountPanel
    \/ intervalTick
    \/ elapseStopped
    \/ \E o \in LiveOutcomes : pollLiveState(o)

SpecPoll == InitPollSpec /\ [][NextPoll]_vars

\* The step is the completion of a poll: a live_state request leaves the
\* set of requests in flight and liveState, lastRunningState are written.
isPollCompletion == liveRequests' = liveRequests - 1

\* The record of day d in a list, if any.
recordsOfDay(list, d) == {list[i] : i \in positionsOf(list, d)}

C5_FailedPollKeepsLiveState ==
    [][pollLiveState(Failed)
       => (liveState' = liveState /\ lastRunningState' = lastRunningState)]_vars

\* C6: at most one live_state request issued through pollLiveState is in
\* flight.
C6_AtMostOneInFlight == liveRequests <= 1

\* C7: once the loop is stopped and the time of the next would-be tick has
\* elapsed, no step writes liveState or lastRunningState.
C7_NoWriteAfterStop ==
    [][(liveStatePollingInterval = 0 /\ elapsedSinceStop >= PollInterval)
       => (liveState' = liveState /\ lastRunningState' = lastRunningState)]_vars

\* ------------------------------------------------------------------------
\* SpecSteps: the step list AIActionInfoStream derives for the shown agent
\* ------------------------------------------------------------------------

\* Longest action list of a snapshot entry in the model.
MaxActions == 2

\* Length of a plan longer than the windowed view.
LongPlan == 7

\* Labels of actionTypeInfo.
actionTypeInfo ==
    [propose |-> "propose-label", vote |-> "vote-label",
     private_message |-> "message-label", do_nothing |-> "idle-label",
     think |-> "think-label"]

\* const type = action.type || 'do_nothing'
actionType(action) == StrOr(action, "type", "do_nothing")

\* actionTypeInfo[type] || actionTypeInfo.do_nothing
actionInfo(type) ==
    IF type \in DOMAIN actionTypeInfo
    THEN actionTypeInfo[type] ELSE actionTypeInfo.do_nothing

\* Mutant of statusOf: the executing phase is not mapped to acting.
statusOfActingOnly(aiState, running) ==
    LET phase == StrOr(aiState, "phase", "")
    IN IF phase = "thinking" THEN "thinking"
       ELSE IF phase = "acting" THEN "acting"
       ELSE IF running /\ "isActing" \in DOMAIN aiState /\ aiState.isActing
       THEN "acting"
       ELSE "idle"

\* The status AIStatusPanel gives an entry of current_ai_states.
statusOf(aiState, running) ==
    LET phase == StrOr(aiState, "phase", "")
    IN IF phase = "thinking" THEN "thinking"
       ELSE IF phase = "acting" \/ phase = "executing" THEN "acting"
       ELSE IF running /\ "isActing" \in DOMAIN aiState /\ aiState.isActing
       THEN "acting"
       ELSE "idle"

\* The decision AIActionInfoStream builds from liveStateData.
decisionData(liveStateData) ==
    IF "decision" \in DOMAIN liveStateData
    THEN [thinking |-> liveStateData.decision,
          actions  |-> ArrOr(liveStateData, "actions", <<>>)]
    ELSE [actions  |-> ArrOr(liveStateData, "actions", <<>>)]

\* The steps pushed for the actions while the agent thinks.
plannedSteps(actions) ==
    IF Len(actions) > 0
    THEN [i \in 1..Len(actions) |->
            [type |-> actionType(actions[i]),
             content |-> IF StrOr(actions[i], "reasoning", "") # ""
                         THEN <<"reason", actions[i].reasoning>>
                         ELSE <<"reason", actionInfo(actionType(actions[i]))>>,
             isImportant |-> actionType(actions[i]) # "do_nothing"]]
    ELSE <<[type |-> "do_nothing", content |-> <<"reason", "no action">>]>>

\* The steps pushed for the actions while the agent acts.
actingSteps(actions) ==
    [i \in 1..Len(actions) |->
        [type |-> actionType(actions[i]),
         content |-> IF actionType(actions[i]) = "do_nothing"
                     THEN <<"no action", StrOr(actions[i], "reasoning", "none")>>
                     ELSE IF StrOr(actions[i], "reasoning", "") # ""
                     THEN <<actionInfo(actionType(actions[i])), actions[i].reasoning>>
                     ELSE <<actionInfo(actionType(actions[i]))>>,
         isImportant |-> actionType(actions[i]) # "do_nothing"]]

\* The array the derivation effect passes to setActionStream.
steps(status, dec, actions) ==
    (IF StrOr(dec, "thinking", "") # "" /\ status = "thinking"
     THEN <<[type |-> "think", content |-> <<"decision", dec.thinking>>,
             isImportant |-> TRUE]>> \o plannedSteps(actions)
     ELSE <<>>)
    \o (IF status = "acting" /\ Len(actions) > 0
        THEN actingSteps(actions) ELSE <<>>)
    \o (IF status = "acting" /\ Len(actions) = 0
        THEN <<[type |-> "do_nothing", content |-> <<"skip">>]>>
        ELSE <<>>)

\* Mutant of stepDelay: every step gets the default delay.
stepDelayDefault(step) == 3000

\* The delay of the advance timer for a step.
stepDelay(step) ==
    IF step.type = "do_nothing" THEN 1500
    ELSE IF step.type = "think" THEN 5000
    ELSE IF step.type \in {"propose", "call_meeting"} THEN 8500
    ELSE IF step.type \in {"vote", "private_message"} THEN 6500
    ELSE 3000

\* Handles in use: those of the pending timers and those the two timer
\* effects keep. setTimeout returns a handle that is not in use.
timerIds(t) == {x.id : x \in t.timers} \cup {t.advance, t.typing}

\* clearTimeout(handle): a handle of a fired or cleared timer does nothing.
clearTimeout(timers, handle) == {x \in timers : x.id # handle}

\* Mutant of advanceEffect: the timer of the previous run is not cleared.
advanceEffectKeepsTimer(t, static, step, list, agent) ==
    IF static \/ step >= Len(list) - 1
    THEN [t EXCEPT !.advance = 0]
    ELSE LET id == newTimer(timerIds(t))
         IN [t EXCEPT !.timers = t.timers \cup
                         {[id |-> id, kind |-> "advance",
                           delay |-> stepDelay(list[step + 1]),
                           step |-> step, agent |-> agent]},
                      !.advance = id]

\* The advance-timer effect re-run for (currentStep, actionStream,
\* staticMode): the cleanup of the previous run, then the body. t holds
\* the pending timers and the handles the two timer effects keep.
advanceEffect(t, static, step, list, agent) ==
    LET cleared == clearTimeout(t.timers, t.advance)
    IN IF static \/ step >= Len(list) - 1
       THEN [t EXCEPT !.timers = cleared, !.advance = 0]
       ELSE LET id == newTimer(timerIds(t))
            IN [t EXCEPT !.timers = cleared \cup
                            {[id |-> id, kind |-> "advance",
                              delay |-> stepDelay(list[step + 1]),
                              step |-> step, agent |-> agent]},
                         !.advance = id]

\* The typing-timer effect re-run for (currentStep, actionStream.length).
typingEffect(t, step, list, agent) ==
    LET cleared == clearTimeout(t.timers, t.typing)
    IN IF step < Len(list)
       THEN LET id == newTimer(timerIds(t))
            IN [t EXCEPT !.timers = cleared \cup
                            {[id |-> id, kind |-> "typing", delay |-> 500,
                              step |-> step, agent |-> agent]},
                         !.typing = id]
       ELSE [t EXCEPT !.timers = cleared, !.typing = 0]

\* The effects of one commit of the stream: an effect re-runs when one of
\* its dependencies differs from the previous commit.
commitEffects(t, static, prevStep, prevLen, listChanged, step, list, agent) ==
    LET adv == IF listChanged \/ step # prevStep
               THEN advanceEffect(t, static, step, list, agent)
               ELSE t
    IN IF step # prevStep \/ Len(list) # prevLen
       THEN typingEffect(adv, step, list, agent)
       ELSE adv

\* The commits that follow setActionStream(list); setCurrentStep(0): the
\* one with the cursor at 0 and, in static mode with a non-empty list, the
\* one after the static-mode effect has set the cursor to the last step.
derivationCommits(t, static, prevStep, prevLen, list, agent) ==
    LET first == commitEffects(t, static, prevStep, prevLen, TRUE, 0, list, agent)
    IN IF static /\ Len(list) > 1
       THEN [t |-> commitEffects(first, static, 0, Len(list), FALSE,
                                 Len(list) - 1, list, agent),
             step |-> Len(list) - 1]
       ELSE [t |-> first, step |-> 0]

streamTimers ==
    [timers |-> pendingTimers, advance |-> advanceTimer, typing |-> typingTimer]

\* The panel shows an agent's entry of the snapshot: the stream derives the
\* steps and puts the cursor on the first one (on the last one in static
\* mode); its timer effects run.
showAgent(running, liveStateData) ==
    LET status == statusOf(liveStateData, running)
        dec == decisionData(liveStateData)
        list == steps(status, dec, dec.actions)
        after == derivationCommits(streamTimers, staticMode, currentStep,
                                   Len(actionStream), list, liveStateData.aiName)
    IN /\ ai' = [name |-> liveStateData.aiName, status |-> status]
       /\ liveAIState' = liveStateData
       /\ streamMounted' = TRUE
       /\ decision' = dec
       /\ actionStream' = list
       /\ currentStep' = after.step
       /\ pendingTimers' = after.t.timers
       /\ advanceTimer' = after.t.advance
       /\ typingTimer' = after.t.typing
       /\ UNCHANGED <<staticMode, showAllSteps>>
       /\ UNCHANGED <<storeVars, decisionVars, pollVars, panelVars, overlayVars>>

\* An advance timer expires: setCurrentStep(prev => prev + 1), then the
\* commit with the new cursor.
advanceStep ==
    \E timer \in pendingTimers :
        /\ timer.kind = "advance"
        /\ LET after == commitEffects(
                            [timers |-> pendingTimers \ {timer},
                             advance |-> advanceTimer, typing |-> typingTimer],
                            staticMode, currentStep, Len(actionStream), FALSE,
                            currentStep + 1, actionStream, ai.name)
           IN /\ currentStep' = currentStep + 1
              /\ pendingTimers' = after.timers
              /\ advanceTimer' = after.advance
              /\ typingTimer' = after.typing
        /\ UNCHANGED <<ai, decision, actionStream, liveAIState, staticMode,
                       streamMounted, showAllSteps>>
        /\ UNCHANGED <<storeVars, decisionVars, pollVars, panelVars, overlayVars>>

\* The typing timer expires: setIsTyping(false).
typingDone ==
    \E timer \in pendingTimers :
        /\ timer.kind = "typing"
        /\ pendingTimers' = pendingTimers \ {timer}
        /\ UNCHANGED <<ai, decision, actionStream, currentStep, liveAIState,
                       staticMode, streamMounted, advanceTimer, typingTimer,
                       showAllSteps>>
        /\ UNCHANGED <<storeVars, decisionVars, pollVars, panelVars, overlayVars>>

\* The stream unmounts (no agent to show): the cleanups of its effects run
\* and its state is dropped.
unmountStream ==
    /\ streamMounted
    /\ streamMounted' = FALSE
    /\ pendingTimers' = clearTimeout(clearTimeout(pendingTimers, advanceTimer),
                                     typingTimer)
    /\ advanceTimer' = 0
    /\ typingTimer' = 0
    /\ actionStream' = <<>>
    /\ currentStep' = 0
    /\ ai' = [name |-> "A", status |-> "idle"]
    /\ decision' = [thinking |-> "", actions |-> <<>>]
    /\ liveAIState' = [aiName |-> "A"]
    /\ tooltip' = noTooltip
    /\ showAllSteps' = FALSE
    /\ UNCHANGED <<staticMode, viewport, overlayEvent, overlayEvents>>
    /\ UNCHANGED <<storeVars, decisionVars, pollVars, panelVars>>

\* Default of the maxVisibleSteps prop.
maxVisibleSteps == 5

\* Array.prototype.slice(startIndex, endIndex) with 0 <= startIndex.
slice(list, startIndex, endIndex) ==
    SubSeq(list, startIndex + 1, Min(endIndex, Len(list)))

\* getStepsToShow(): the steps the stream renders.
getStepsToShow(showAll, static, list, step) ==
    IF showAll \/ static
    THEN list
    ELSE slice(list, Max(0, step - maxVisibleSteps + 2),
               Min(Len(list), step + 2))

stepsToShow == getStepsToShow(showAllSteps, staticMode, actionStream, currentStep)

hasMoreSteps == Len(actionStream) > Len(stepsToShow)

\* The "show all" button (rendered while steps are left out).
showAllClick ==
    /\ streamMounted /\ hasMoreSteps /\ ~showAllSteps
    /\ showAllSteps' = TRUE
    /\ UNCHANGED <<ai, decision, actionStream, currentStep, liveAIState,
                   staticMode, streamMounted, advanceTimer, typingTimer,
                   pendingTimers, overlayVars>>
    /\ UNCHANGED <<storeVars, decisionVars, pollVars, panelVars>>

\* The "compact view" button (rendered while show-all is on).
compactViewClick ==
    /\ streamMounted /\ showAllSteps
    /\ showAllSteps' = FALSE
    /\ UNCHANGED <<ai, decision, actionStream, currentStep, liveAIState,
                   staticMode, streamMounted, advanceTimer, typingTimer,
                   pendingTimers, overlayVars>>
    /\ UNCHANGED <<storeVars, decisionVars, pollVars, panelVars>>

\* Actions of a plan: with and without a reason, and one without a type.
PlanActions ==
    {[type |-> "vote"], [type |-> "propose", reasoning |-> "why"],
     [reasoning |-> "wait"]}

RECURSIVE SeqsUpTo(_, _)
SeqsUpTo(S, n) ==
    IF n = 0 THEN {<<>>}
    ELSE LET shorter == SeqsUpTo(S, n - 1)
         IN shorter \cup {Append(q, x) : q \in shorter, x \in S}

\* Plans of at most MaxActions actions, no action twice.
Plans ==
    {q \in SeqsUpTo(PlanActions, MaxActions) :
        \A i, j \in 1..Len(q) : q[i] = q[j] => i = j}

\* Entries of current_ai_states for the shown agent: every phase, with the
\* reasoning text missing, empty or present, and every plan; and entries of
\* a second agent.
StreamInputs ==
    {[aiName |-> "A", phase |-> ph, decision |-> txt, actions |-> acts] :
        ph \in {"thinking", "acting", "executing", "idle"},
        txt \in {"", "plan"}, acts \in Plans}
    \cup {[aiName |-> "B", phase |-> "thinking", decision |-> "plan",
           actions |-> <<[type |-> "vote"]>>],
          [aiName |-> "B", phase |-> "acting", decision |-> "plan",
           actions |-> <<[type |-> "call_meeting"], [type |-> "private_message"],
                         [type |-> "trade"], [type |-> "vote"]>>],
          [aiName |-> "B", phase |-> "acting", decision |-> "plan",
           actions |-> [i \in 1..LongPlan |-> [type |-> "vote"]]]}
    \cup {[aiName |-> "A", phase |-> ph] : ph \in {"thinking", "acting"}}
    \cup {[aiName |-> "A", isActing |-> b] : b \in BOOLEAN}

\* liveState.running is read only for an entry without a phase.
RunningInputs(liveStateData) ==
    IF "phase" \in DOMAIN liveStateData THEN {TRUE} ELSE BOOLEAN

\* The stream as first rendered, with live data (staticMode off) or with
\* an injected snapshot (staticMode on).
InitSteps ==
    /\ InitStore /\ InitDecisions /\ InitPoll /\ InitPanel
    /\ ai = [name |-> "A", status |-> "idle"]
    /\ decision = [thinking |-> "", actions |-> <<>>]
    /\ actionStream = <<>>
    /\ currentStep = 0
    /\ liveAIState = [aiName |-> "A"]
    /\ staticMode \in BOOLEAN
    /\ streamMounted = FALSE
    /\ advanceTimer = 0
    /\ typingTimer = 0
    /\ pendingTimers = {}
    /\ showAllSteps = FALSE
    /\ InitOverlay

NextSteps ==
    \/ \E liveStateData \in StreamInputs :
          \E running \in RunningInputs(liveStateData) :
             showAgent(running, liveStateData)
    \/ advanceStep
    \/ typingDone
    \/ unmountStream
    \/ showAllClick
    \/ compactViewClick

SpecSteps == InitSteps /\ [][NextSteps]_vars

typesOf(list) == [i \in 1..Len(list) |-> list[i].type]

\* C10: while the shown agent's phase is thinking, the step list is one
\* think step followed by one step per planned action in list order, or by
\* one do_nothing step when the plan is empty, whatever the reasoning text.
C10_ThinkingStepList ==
    ai.status = "thinking" =>
        typesOf(actionStream) =
            <<"think">> \o
            (IF Len(decision.actions) > 0
             THEN [i \in 1..Len(decision.actions) |->
                     IF "type" \in DOMAIN decision.actions[i]
                     THEN decision.actions[i].type ELSE "do_nothing"]
             ELSE <<"do_nothing">>)

\* The phase and the action list of the shown agent's snapshot entry.
shownPhase == StrOr(liveAIState, "phase", "")

shownActions == ArrOr(liveAIState, "actions", <<>>)

C12_StaticModeNoTimer ==
    (streamMounted /\ staticMode /\ Len(actionStream) >= 1) =>
        /\ currentStep = Len(actionStream) - 1
        /\ pendingTimers = {}

advanceTimers == {t \in pendingTimers : t.kind = "advance"}

InitPlayback == InitSteps /\ ~staticMode

\* The first snapshot with the agent's entry arrives.
firstShow ==
    /\ ~streamMounted
    /\ \E liveStateData \in StreamInputs :
          /\ "phase" \in DOMAIN liveStateData
          /\ showAgent(TRUE, liveStateData)

\* A later poll returns the same entry: liveStateData is a new object with
\* the same content.
samePoll ==
    /\ streamMounted
    /\ showAgent(TRUE, liveAIState)

NextPlayback ==
    \/ firstShow
    \/ samePoll
    \/ advanceStep
    \/ typingDone

\* A pending timer fires unless it is cleared.
SpecPlayback ==
    /\ InitPlayback /\ [][NextPlayback]_vars
    /\ WF_vars(advanceStep) /\ WF_vars(typingDone)

\* C14: in non-static mode the cursor of a list of n >= 1 steps never
\* exceeds n - 1, moves by one at a timer expiry, no advance timer is
\* pending at n - 1, and the cursor eventually is n - 1.
C14_PlaybackReachesDone ==
    /\ [](Len(actionStream) >= 1 => currentStep <= Len(actionStream) - 1)
    /\ [](currentStep = Len(actionStream) - 1 => advanceTimers = {})
    /\ []((streamMounted /\ Len(actionStream) >= 1)
             => <>(currentStep = Len(actionStream) - 1))


\* ------------------------------------------------------------------------
\* SpecOverlay: the detail overlay of AIActionInfoStream (open, drag,
\* resize, close)
\* ------------------------------------------------------------------------

tooltipWidth == 350
tooltipHeight == 200
margin == 10
minWidth == 200
minHeight == 150
maxWidth == 800
maxHeight == 600

\* DOM events one run of the overlay handles.
MaxOverlayEvents == 4
\* How far outside the viewport a captured pointer is reported.
Beyond == 50
\* Size of a step element of the list.
AnchorWidth == 120
AnchorHeight == 30

isOpen(t) == DOMAIN t # {}

\* t?.f as a condition, f an optional boolean property.
flag(t, f) == isOpen(t) /\ f \in DOMAIN t /\ t[f]

\* { ...prev, ...fields }
spread(prev, fields) ==
    [f \in DOMAIN prev \cup DOMAIN fields |->
        IF f \in DOMAIN fields THEN fields[f] ELSE prev[f]]

\* Mutant of calculateTooltipPosition: the top margin is not enforced.
calculateTooltipPositionNoTopMargin(clickRect, vp) ==
    LET left == clickRect.left - tooltipWidth - margin
        right == clickRect.right + margin
        x1 == IF left < margin
              THEN IF right + tooltipWidth > vp.width - margin
                   THEN vp.width - tooltipWidth - margin
                   ELSE right
              ELSE left
        candidateX == IF x1 + tooltipWidth > vp.width - margin
                      THEN margin ELSE x1
        candidateY == IF clickRect.top + tooltipHeight > vp.height - margin
                      THEN vp.height - tooltipHeight - margin
                      ELSE clickRect.top
    IN [x |-> candidateX, y |-> candidateY,
        width |-> tooltipWidth, height |-> tooltipHeight]

\* Left of the clicked element if there is room, else right of it, moved
\* into the viewport; the top of the element, moved into the viewport.
calculateTooltipPosition(clickRect, vp) ==
    LET left == clickRect.left - tooltipWidth - margin
        right == clickRect.right + margin
        x1 == IF left < margin
              THEN IF right + tooltipWidth > vp.width - margin
                   THEN vp.width - tooltipWidth - margin
                   ELSE right
              ELSE left
        candidateX == IF x1 + tooltipWidth > vp.width - margin
                      THEN margin ELSE x1
        y1 == IF clickRect.top + tooltipHeight > vp.height - margin
              THEN vp.height - tooltipHeight - margin
              ELSE clickRect.top
        candidateY == IF y1 < margin THEN margin ELSE y1
    IN [x |-> candidateX, y |-> candidateY,
        width |-> tooltipWidth, height |-> tooltipHeight]

\* setTooltip({...}): a new overlay state without drag or resize fields.
handleStepClick(clickRect, step, index, vp) ==
    LET pos == calculateTooltipPosition(clickRect, vp)
    IN [isVisible |-> TRUE, x |-> pos.x, y |-> pos.y, type |-> step.type,
        stepIndex |-> index, width |-> pos.width, height |-> pos.height]

handleDragStart(t, e) ==
    IF ~isOpen(t) \/ flag(t, "isResizing")
    THEN t
    ELSE spread(t, [isDragging |-> TRUE,
                    dragOffset |-> [x |-> e.clientX - t.x,
                                    y |-> e.clientY - t.y]])

\* Mutant of handleDragMove: the position is not clamped.
handleDragMoveUnclamped(t, e, vp) ==
    IF ~flag(t, "isDragging")
    THEN t
    ELSE spread(t, [x |-> e.clientX - t.dragOffset.x,
                    y |-> e.clientY - t.dragOffset.y])

\* dragOffset?.x || 0 is dragOffset.x: handleDragStart sets dragOffset
\* together with isDragging.
handleDragMove(t, e, vp) ==
    IF ~flag(t, "isDragging")
    THEN t
    ELSE LET newX == e.clientX - t.dragOffset.x
             newY == e.clientY - t.dragOffset.y
             clampedX == Max(margin, Min(newX, vp.width - t.width - margin))
             clampedY == Max(margin, Min(newY, vp.height - t.height - margin))
         IN spread(t, [x |-> clampedX, y |-> clampedY])

handleDragEnd(t) ==
    IF isOpen(t) THEN spread(t, [isDragging |-> FALSE]) ELSE t

handleResizeStart(t, e, direction) ==
    IF ~isOpen(t)
    THEN t
    ELSE spread(t, [isResizing |-> TRUE,
                    resizeDirection |-> direction,
                    resizeStartSize |-> [width |-> t.width, height |-> t.height],
                    resizeStartPos |-> [x |-> e.clientX, y |-> e.clientY]])

\* Mutant of handleResizeMove: the size has no upper limit.
handleResizeMoveNoMaxSize(t, e, vp) ==
    IF ~flag(t, "isResizing")
    THEN t
    ELSE LET deltaX == e.clientX - t.resizeStartPos.x
             deltaY == e.clientY - t.resizeStartPos.y
             dir == t.resizeDirection
             startW == t.resizeStartSize.width
             startH == t.resizeStartSize.height
             w0 == IF dir \in {"e", "se", "ne"}
                   THEN Max(minWidth, startW + deltaX)
                   ELSE IF dir \in {"w", "sw", "nw"}
                   THEN Max(minWidth, startW - deltaX)
                   ELSE startW
             h0 == IF dir \in {"s", "se", "sw"}
                   THEN Max(minHeight, startH + deltaY)
                   ELSE IF dir \in {"n", "ne", "nw"}
                   THEN Max(minHeight, startH - deltaY)
                   ELSE startH
             x0 == IF dir \in {"w", "sw", "nw"} THEN t.x + deltaX ELSE t.x
             y0 == IF dir \in {"n", "ne", "nw"} THEN t.y + deltaY ELSE t.y
             w1 == IF x0 < margin THEN w0 - (margin - x0) ELSE w0
             newX == IF x0 < margin THEN margin ELSE x0
             newWidth == IF newX + w1 > vp.width - margin
                         THEN Max(minWidth, vp.width - margin - newX)
                         ELSE w1
             h1 == IF y0 < margin THEN h0 - (margin - y0) ELSE h0
             newY == IF y0 < margin THEN margin ELSE y0
             newHeight == IF newY + h1 > vp.height - margin
                          THEN Max(minHeight, vp.height - margin - newY)
                          ELSE h1
         IN spread(t, [width |-> Max(minWidth, newWidth),
                       height |-> Max(minHeight, newHeight),
                       x |-> newX, y |-> newY])

\* Mutant of handleResizeMove: the east handle also changes the height.
handleResizeMoveEastIsCorner(t, e, vp) ==
    IF ~flag(t, "isResizing")
    THEN t
    ELSE LET deltaX == e.clientX - t.resizeStartPos.x
             deltaY == e.clientY - t.resizeStartPos.y
             dir == t.resizeDirection
             startW == t.resizeStartSize.width
             startH == t.resizeStartSize.height
             w0 == IF dir \in {"e", "se", "ne"}
                   THEN Max(minWidth, Min(maxWidth, startW + deltaX))
                   ELSE IF dir \in {"w", "sw", "nw"}
                   THEN Max(minWidth, Min(maxWidth, startW - deltaX))
                   ELSE startW
             h0 == IF dir \in {"s", "se", "sw", "e"}
                   THEN Max(minHeight, Min(maxHeight, startH + deltaY))
                   ELSE IF dir \in {"n", "ne", "nw"}
                   THEN Max(minHeight, Min(maxHeight, startH - deltaY))
                   ELSE startH
             x0 == IF dir \in {"w", "sw", "nw"} THEN t.x + deltaX ELSE t.x
             y0 == IF dir \in {"n", "ne", "nw"} THEN t.y + deltaY ELSE t.y
             w1 == IF x0 < margin THEN w0 - (margin - x0) ELSE w0
             newX == IF x0 < margin THEN margin ELSE x0
             newWidth == IF newX + w1 > vp.width - margin
                         THEN Max(minWidth, vp.width - margin - newX)
                         ELSE w1
             h1 == IF y0 < margin THEN h0 - (margin - y0) ELSE h0
             newY == IF y0 < margin THEN margin ELSE y0
             newHeight == IF newY + h1 > vp.height - margin
                          THEN Max(minHeight, vp.height - margin - newY)
                          ELSE h1
         IN spread(t, [width |-> Max(minWidth, newWidth),
                       height |-> Max(minHeight, newHeight),
                       x |-> newX, y |-> newY])

handleResizeMove(t, e, vp) ==
    IF ~flag(t, "isResizing")
    THEN t
    ELSE LET deltaX == e.clientX - t.resizeStartPos.x
             deltaY == e.clientY - t.resizeStartPos.y
             dir == t.resizeDirection
             startW == t.resizeStartSize.width
             startH == t.resizeStartSize.height
             w0 == IF dir \in {"e", "se", "ne"}
                   THEN Max(minWidth, Min(maxWidth, startW + deltaX))
                   ELSE IF dir \in {"w", "sw", "nw"}
                   THEN Max(minWidth, Min(maxWidth, startW - deltaX))
                   ELSE startW
             h0 == IF dir \in {"s", "se", "sw"}
                   THEN Max(minHeight, Min(maxHeight, startH + deltaY))
                   ELSE IF dir \in {"n", "ne", "nw"}
                   THEN Max(minHeight, Min(maxHeight, startH - deltaY))
                   ELSE startH
             x0 == IF dir \in {"w", "sw", "nw"} THEN t.x + deltaX ELSE t.x
             y0 == IF dir \in {"n", "ne", "nw"} THEN t.y + deltaY ELSE t.y
             w1 == IF x0 < margin THEN w0 - (margin - x0) ELSE w0
             newX == IF x0 < margin THEN margin ELSE x0
             newWidth == IF newX + w1 > vp.width - margin
                         THEN Max(minWidth, vp.width - margin - newX)
                         ELSE w1
             h1 == IF y0 < margin THEN h0 - (margin - y0) ELSE h0
             newY == IF y0 < margin THEN margin ELSE y0
             newHeight == IF newY + h1 > vp.height - margin
                          THEN Max(minHeight, vp.height - margin - newY)
                          ELSE h1
         IN spread(t, [width |-> Max(minWidth, newWidth),
                       height |-> Max(minHeight, newHeight),
                       x |-> newX, y |-> newY])

handleResizeEnd(t) ==
    IF isOpen(t) THEN spread(t, [isResizing |-> FALSE]) ELSE t

\* The document's mousemove listener; it is attached while a drag or a
\* resize is active.
handleMouseMove(t, e, vp) ==
    IF flag(t, "isDragging") THEN handleDragMove(t, e, vp)
    ELSE IF flag(t, "isResizing") THEN handleResizeMove(t, e, vp)
    ELSE t

\* The document's mouseup listener.
handleMouseUp(t) ==
    IF flag(t, "isDragging") THEN handleDragEnd(t)
    ELSE IF flag(t, "isResizing") THEN handleResizeEnd(t)
    ELSE t

\* The document's mousedown listener, for a target outside the overlay
\* element; tooltipRef.current is the element of an open overlay.
handleClickOutside(t) ==
    IF isOpen(t) /\ ~flag(t, "isDragging") /\ ~flag(t, "isResizing")
    THEN noTooltip
    ELSE t

\* The document's keydown listener, for the key Escape.
handleEscKey(t) == noTooltip

\* The browser dispatches a DOM event to the stream.
dispatched(e) ==
    /\ overlayEvents < MaxOverlayEvents
    /\ overlayEvent' = e
    /\ overlayEvents' = overlayEvents + 1
    /\ UNCHANGED viewport
    /\ UNCHANGED <<ai, decision, actionStream, currentStep, liveAIState,
                   staticMode, streamMounted, advanceTimer, typingTimer,
                   pendingTimers, showAllSteps>>
    /\ UNCHANGED <<storeVars, decisionVars, pollVars, panelVars>>

\* Bounding rectangles of a step element: inside the viewport, at its left
\* edge, in the middle, and touching its right edge; at the top and at the
\* bottom.
ClickRects(vp) ==
    {[left |-> l, right |-> l + AnchorWidth, top |-> tp] :
        l \in {x \in {0, 400, (vp.width - AnchorWidth) \div 2,
                      vp.width - AnchorWidth} :
                  x + AnchorWidth <= vp.width},
        tp \in {0, vp.height - AnchorHeight}}

\* Pointer positions of captured mouse events: before, inside and past the
\* viewport on each axis.
PointerPositions(vp) ==
    {[clientX |-> px, clientY |-> py] :
        px \in {0 - Beyond, vp.width \div 2, vp.width + Beyond},
        py \in {0 - Beyond, vp.height \div 2, vp.height + Beyond}}

\* Where the header is grabbed, relative to the overlay's corner.
GrabPoints == {[x |-> 0, y |-> 0], [x |-> 20, y |-> 5]}

Directions == {"n", "s", "e", "w", "ne", "nw", "se", "sw"}

\* The pointer on the resize handle of a direction.
handlePoint(t, direction) ==
    [clientX |-> IF direction \in {"e", "ne", "se"} THEN t.x + t.width ELSE t.x,
     clientY |-> IF direction \in {"s", "se", "sw"} THEN t.y + t.height ELSE t.y]

\* A click on a step of the list.
clickStep ==
    /\ streamMounted
    /\ \E index \in 0..(Len(actionStream) - 1), clickRect \in ClickRects(viewport) :
          /\ tooltip' = handleStepClick(clickRect, actionStream[index + 1],
                                        index, viewport)
          /\ dispatched([type |-> "click", rect |-> clickRect])

\* A mouse button goes down on the overlay's header.
mouseDownHeader ==
    /\ isOpen(tooltip)
    /\ \E grab \in GrabPoints :
          LET e == [clientX |-> tooltip.x + grab.x, clientY |-> tooltip.y + grab.y]
          IN /\ tooltip' = handleDragStart(tooltip, e)
             /\ dispatched([type |-> "mousedownHeader",
                            clientX |-> e.clientX, clientY |-> e.clientY])

\* A mouse button goes down on one of the eight resize handles.
mouseDownHandle ==
    /\ isOpen(tooltip)
    /\ \E direction \in Directions :
          LET e == handlePoint(tooltip, direction)
          IN /\ tooltip' = handleResizeStart(tooltip, e, direction)
             /\ dispatched([type |-> "mousedownHandle",
                            clientX |-> e.clientX, clientY |-> e.clientY])

mouseMove ==
    /\ flag(tooltip, "isDragging") \/ flag(tooltip, "isResizing")
    /\ \E e \in PointerPositions(viewport) :
          /\ tooltip' = handleMouseMove(tooltip, e, viewport)
          /\ dispatched([type |-> "mousemove",
                         clientX |-> e.clientX, clientY |-> e.clientY])

mouseUp ==
    /\ flag(tooltip, "isDragging") \/ flag(tooltip, "isResizing")
    /\ tooltip' = handleMouseUp(tooltip)
    /\ dispatched([type |-> "mouseup"])

\* A mouse button goes down on an element outside the overlay.
mouseDownOutside ==
    /\ tooltip' = handleClickOutside(tooltip)
    /\ dispatched([type |-> "mousedownOutside"])

keyDownEscape ==
    /\ tooltip' = handleEscKey(tooltip)
    /\ dispatched([type |-> "keydownEscape"])

\* The entry the stream shows while the overlay is used.
OverlayEntry ==
    [aiName |-> "A", phase |-> "acting",
     actions |-> <<[type |-> "vote"], [type |-> "propose"]>>]

showEntry ==
    /\ ~streamMounted
    /\ showAgent(TRUE, OverlayEntry)

Viewports ==
    {[width |-> tooltipWidth + 2 * margin, height |-> tooltipHeight + 2 * margin],
     [width |-> 600, height |-> 400],
     [width |-> 1024, height |-> 768]}

InitOverlaySpec ==
    /\ InitStore /\ InitDecisions /\ InitPoll /\ InitPanel
    /\ ai = [name |-> "A", status |-> "idle"]
    /\ decision = [thinking |-> "", actions |-> <<>>]
    /\ actionStream = <<>>
    /\ currentStep = 0
    /\ liveAIState = [aiName |-> "A"]
    /\ staticMode = FALSE
    /\ streamMounted = FALSE
    /\ advanceTimer = 0
    /\ typingTimer = 0
    /\ pendingTimers = {}
    /\ showAllSteps = FALSE
    /\ tooltip = noTooltip
    /\ viewport \in Viewports
    /\ overlayEvent = [type |-> "none"]
    /\ overlayEvents = 0

NextOverlay ==
    \/ showEntry
    \/ clickStep
    \/ mouseDownHeader
    \/ mouseDownHandle
    \/ mouseMove
    \/ mouseUp
    \/ mouseDownOutside
    \/ keyDownEscape

SpecOverlay == InitOverlaySpec /\ [][NextOverlay]_vars

insideViewport(t, vp) ==
    /\ t.x >= margin
    /\ t.y >= margin
    /\ t.x + t.width <= vp.width - margin
    /\ t.y + t.height <= vp.height - margin

rectInside(r, vp) ==
    /\ 0 <= r.left /\ r.left <= r.right /\ r.right <= vp.width
    /\ 0 <= r.top /\ r.top <= vp.height

\* C15: opening the overlay on an anchor inside a viewport of at least
\* overlay size plus two margins puts the overlay at
\* margin <= x <= viewportWidth - overlayWidth - margin and
\* margin <= y <= viewportHeight - overlayHeight - margin.
C15_OpenInsideViewport ==
    (/\ overlayEvent.type = "click"
     /\ rectInside(overlayEvent.rect, viewport)
     /\ viewport.width >= tooltipWidth + 2 * margin
     /\ viewport.height >= tooltipHeight + 2 * margin)
       => /\ isOpen(tooltip)
          /\ tooltip.width = tooltipWidth /\ tooltip.height = tooltipHeight
          /\ margin <= tooltip.x
          /\ tooltip.x <= viewport.width - tooltipWidth - margin
          /\ margin <= tooltip.y
          /\ tooltip.y <= viewport.height - tooltipHeight - margin

\* The anchor touches the right viewport edge and the top edge.
C15_Witness ==
    /\ overlayEvent.type = "click"
    /\ overlayEvent.rect.right = viewport.width
    /\ overlayEvent.rect.top = 0
    /\ isOpen(tooltip)
    /\ tooltip.y = margin

\* C16: after a resize pointer-move the overlay rectangle lies inside the
\* viewport margins.
C16_ResizeInsideViewport ==
    (/\ overlayEvent.type = "mousemove"
     /\ flag(tooltip, "isResizing") /\ ~flag(tooltip, "isDragging"))
       => insideViewport(tooltip, viewport)

clamp(v, lo, hi) == Max(lo, Min(v, hi))

\* C17: a drag start (a press on the header while no resize is active)
\* captures the pointer-minus-position offset; a drag
\* pointer-move puts the overlay at the pointer minus that offset, clamped
\* to the viewport margins on both axes, and keeps width, height and offset.
C17_DragFollowsPointer ==
    [][/\ (overlayEvent'.type = "mousedownHeader" /\ ~flag(tooltip, "isResizing"))
          => /\ flag(tooltip', "isDragging")
             /\ tooltip'.dragOffset.x = overlayEvent'.clientX - tooltip.x
             /\ tooltip'.dragOffset.y = overlayEvent'.clientY - tooltip.y
       /\ (overlayEvent'.type = "mousemove" /\ flag(tooltip, "isDragging"))
          => /\ tooltip'.x = clamp(overlayEvent'.clientX - tooltip.dragOffset.x,
                                   margin,
                                   viewport.width - tooltip.width - margin)
             /\ tooltip'.y = clamp(overlayEvent'.clientY - tooltip.dragOffset.y,
                                   margin,
                                   viewport.height - tooltip.height - margin)
             /\ tooltip'.width = tooltip.width
             /\ tooltip'.height = tooltip.height
             /\ tooltip'.dragOffset = tooltip.dragOffset
      ]_vars

\* A drag move that follows the pointer on x and is clamped on y.
C17_Witness ==
    /\ overlayEvent.type = "mousemove"
    /\ flag(tooltip, "isDragging")
    /\ tooltip.dragOffset.x > 0
    /\ tooltip.x = overlayEvent.clientX - tooltip.dragOffset.x
    /\ tooltip.x > margin
    /\ overlayEvent.clientY - tooltip.dragOffset.y < margin
    /\ tooltip.y = margin

\* C18: isDragging and isResizing are never both true, and after a
\* pointer-up neither is.
C18_DragResizeExclusive ==
    /\ ~(flag(tooltip, "isDragging") /\ flag(tooltip, "isResizing"))
    /\ overlayEvent.type = "mouseup"
          => ~flag(tooltip, "isDragging") /\ ~flag(tooltip, "isResizing")

\* C19: after a pointer-down outside the overlay, or an Escape key press,
\* the overlay is closed.
C19_OutsideOrEscapeCloses ==
    overlayEvent.type \in {"mousedownOutside", "keydownEscape"}
       => ~isOpen(tooltip)


\* C27: on open, x is anchor.left - overlayWidth - margin when that is at
\* least margin; otherwise anchor.right + margin when the overlay then ends
\* at or before viewportWidth - margin; otherwise margin.
C27_OpenPrefersLeftThenRight ==
    overlayEvent.type = "click"
       => LET leftX == overlayEvent.rect.left - tooltipWidth - margin
              rightX == overlayEvent.rect.right + margin
          IN tooltip.x = IF leftX >= margin THEN leftX
                         ELSE IF rightX + tooltipWidth <= viewport.width - margin
                         THEN rightX
                         ELSE margin

\* C28: after a resize pointer-move the width is within [200, 800] and the
\* height within [150, 600].
C28_ResizeSizeLimits ==
    (/\ overlayEvent.type = "mousemove"
     /\ flag(tooltip, "isResizing") /\ ~flag(tooltip, "isDragging"))
       => /\ minWidth <= tooltip.width /\ tooltip.width <= maxWidth
          /\ minHeight <= tooltip.height /\ tooltip.height <= maxHeight

\* A resize move has grown the overlay to the largest width.
C28_Witness ==
    /\ overlayEvent.type = "mousemove"
    /\ flag(tooltip, "isResizing") /\ ~flag(tooltip, "isDragging")
    /\ tooltip.width = maxWidth
    /\ tooltip.resizeStartSize.width < maxWidth

\* The rectangle the direction switch of handleResizeMove computes, before
\* the viewport checks.
resizeCandidate(t, e) ==
    LET deltaX == e.clientX - t.resizeStartPos.x
        deltaY == e.clientY - t.resizeStartPos.y
        dir == t.resizeDirection
        startW == t.resizeStartSize.width
        startH == t.resizeStartSize.height
    IN [width |-> IF dir \in {"e", "se", "ne"}
                  THEN Max(minWidth, Min(maxWidth, startW + deltaX))
                  ELSE IF dir \in {"w", "sw", "nw"}
                  THEN Max(minWidth, Min(maxWidth, startW - deltaX))
                  ELSE startW,
        height |-> IF dir \in {"s", "se", "sw"}
                   THEN Max(minHeight, Min(maxHeight, startH + deltaY))
                   ELSE IF dir \in {"n", "ne", "nw"}
                   THEN Max(minHeight, Min(maxHeight, startH - deltaY))
                   ELSE startH,
        x |-> IF dir \in {"w", "sw", "nw"} THEN t.x + deltaX ELSE t.x,
        y |-> IF dir \in {"n", "ne", "nw"} THEN t.y + deltaY ELSE t.y]

\* One of the four viewport checks of handleResizeMove applies.
reclampApplies(c, vp) ==
    \/ c.x < margin
    \/ c.x + c.width > vp.width - margin
    \/ c.y < margin
    \/ c.y + c.height > vp.height - margin

\* C29: a resize pointer-move with an edge handle to which no viewport
\* check applies leaves unchanged: x, y and height for 'e'; x, y and width
\* for 's'; y and height for 'w'; x and width for 'n'. A drag pointer-move
\* leaves width and height unchanged.
C29_EdgeHandleFrame ==
    [][(overlayEvent'.type = "mousemove" /\ isOpen(tooltip))
         => /\ flag(tooltip, "isDragging")
               => /\ tooltip'.width = tooltip.width
                  /\ tooltip'.height = tooltip.height
            /\ (/\ ~flag(tooltip, "isDragging")
                /\ flag(tooltip, "isResizing")
                /\ ~reclampApplies(
                       resizeCandidate(tooltip,
                                       [clientX |-> overlayEvent'.clientX,
                                        clientY |-> overlayEvent'.clientY]),
                       viewport))
               => LET dir == tooltip.resizeDirection
                  IN /\ dir \in {"e", "s"} => tooltip'.x = tooltip.x
                     /\ dir \in {"e", "s"} => tooltip'.y = tooltip.y
                     /\ dir \in {"e", "w"} => tooltip'.height = tooltip.height
                     /\ dir \in {"s", "n"} => tooltip'.width = tooltip.width
                     /\ dir = "w" => tooltip'.y = tooltip.y
                     /\ dir = "n" => tooltip'.x = tooltip.x
      ]_vars

\* A move of the west handle inside the viewport has changed x and width.
C29_Witness ==
    /\ overlayEvent.type = "mousemove"
    /\ flag(tooltip, "isResizing") /\ ~flag(tooltip, "isDragging")
    /\ tooltip.resizeDirection = "w"
    /\ tooltip.x # tooltip.resizeStartPos.x
    /\ tooltip.width # tooltip.resizeStartSize.width
    /\ tooltip.height = tooltip.resizeStartSize.height
    /\ insideViewport(tooltip, viewport)

\* ------------------------------------------------------------------------
\* SpecEfficiency: the efficiency fraction of /status and /run_next
\* ------------------------------------------------------------------------

\* A backend fraction 0..1 is held in thousandths, 0..1000.
\* Math.round(f * 100) for f = t / 1000: the nearest integer, a half going
\* up; for 0.145, 0.285, 0.565 and 0.575 the double product f * 100 lies
\* just below the half, so those go down.
roundPercent(t) ==
    IF t \in {145, 285, 565, 575} THEN (t - 5) \div 10 ELSE (t + 5) \div 10

\* getSystemStatus:
\* data.systemEfficiency ? Math.round(data.systemEfficiency * 100) : 100
statusEfficiency(data) ==
    IF "systemEfficiency" \in DOMAIN data /\ data.systemEfficiency # 0
    THEN roundPercent(data.systemEfficiency)
    ELSE 100

\* shelterAPI.getSystemStatus, the day and systemEfficiency fields.
getSystemStatusEfficiency(outcome) ==
    safeApiCall(outcome,
                IF "data" \in DOMAIN outcome
                THEN [day |-> NumOr(outcome.data, "day", 0),
                      systemEfficiency |-> statusEfficiency(outcome.data)]
                ELSE [day |-> 0, systemEfficiency |-> 100],
                [day |-> 0, systemEfficiency |-> 100])

\* shelterAPI.runNextDay converts a numeric system_state.systemEfficiency of
\* the payload in place before it returns the payload.
runNextConverted(outcome) ==
    IF /\ "data" \in DOMAIN outcome
       /\ "system_state" \in DOMAIN outcome.data
       /\ "systemEfficiency" \in DOMAIN outcome.data.system_state
    THEN [outcome EXCEPT !.data.system_state.systemEfficiency = roundPercent(@)]
    ELSE outcome

\* States of the backend: every fraction in thousandths, and a state
\* without the field.
BackendStates ==
    {[day |-> 0]} \cup {[day |-> 0, systemEfficiency |-> t] : t \in 0..1000}

\* fetchSystemState with the efficiency field of the status response.
fetchSystemStateEfficiency ==
    /\ "systemState" \in fetchPending
    /\ fetchPending' = fetchPending \ {"systemState"}
    /\ systemState' =
          getSystemStatusEfficiency([ok |-> TRUE, data |-> backendState])
    /\ UNCHANGED <<proposals, events, voteAnalyses, history, loading, error,
                   runNextPending, resetPending, backendState, clientCall, autoVars>>
    /\ UNCHANGED <<decisionVars, pollVars, panelVars, streamVars>>

\* runNextDay after its await, for the backend's state one day on.
runNextDaySettledEfficiency ==
    runNextDaySettled(runNextConverted(
        [ok |-> TRUE,
         data |-> [system_state |-> [backendState EXCEPT !.day = systemState.day + 1],
                   events |-> <<>>, proposals |-> <<>>]]))

InitEfficiency ==
    /\ systemState = initialSystemState
    /\ proposals = <<>> /\ events = <<>> /\ voteAnalyses = <<>>
    /\ history = emptyHistory
    /\ loading = FALSE /\ error = Null
    /\ runNextPending = 0 /\ fetchPending = {} /\ resetPending = FALSE
    /\ backendState \in BackendStates
    /\ clientCall = noCall
    /\ InitAutoRun
    /\ InitDecisions /\ InitPoll /\ InitPanel /\ InitStream

NextEfficiency ==
    \/ fetchData
    \/ fetchSystemStateEfficiency
    \/ runNextDay
    \/ runNextDaySettledEfficiency

SpecEfficiency == InitEfficiency /\ [][NextEfficiency]_vars

\* C20: for a backend fraction f in [0, 1] (t thousandths) the exposed
\* systemEfficiency is an integer p in 0..100 nearest to 100 * f, after a
\* status response and after a run_next response.
C20_EfficiencyIsPercent ==
    ("systemEfficiency" \in DOMAIN systemState
        /\ "systemEfficiency" \in DOMAIN backendState)
       => LET p == systemState.systemEfficiency
              t == backendState.systemEfficiency
          IN /\ p \in 0..100
             /\ 10 * p - 5 <= t
             /\ t <= 10 * p + 5


\* ------------------------------------------------------------------------
\* Playback delays (SpecSteps)
\* ------------------------------------------------------------------------

\* C30: the delay of the advance timer scheduled at cursor position i is
\* fixed by the kind of step i: 1500 for do_nothing, 5000 for think, 8500
\* for propose and call_meeting, 6500 for vote and private_message, 3000 for
\* any other kind.
C30_DelayByKind ==
    \A t \in advanceTimers :
        LET kind == actionStream[t.step + 1].type
        IN t.delay = CASE kind = "do_nothing" -> 1500
                       [] kind = "think" -> 5000
                       [] kind \in {"propose", "call_meeting"} -> 8500
                       [] kind \in {"vote", "private_message"} -> 6500
                       [] OTHER -> 3000

\* A timer for a step of a kind outside the table is pending.
C30_Witness ==
    \E t \in advanceTimers :
        /\ actionStream[t.step + 1].type = "trade"
        /\ t.step = currentStep
        /\ t.delay = 3000


\* ------------------------------------------------------------------------
\* SpecClient: how the calls of the Snapshot Client settle
\* ------------------------------------------------------------------------

\* The promise of the apiCall closure: axios rejects on a transport
\* failure, otherwise the closure returns value.
apiCallPromise(outcome, value) ==
    IF outcome.ok
    THEN [status |-> "fulfilled", value |-> value]
    ELSE [status |-> "rejected"]

\* Mutant of safeApiCallPromise: no try/catch around the awaited call.
safeApiCallRethrows(promise, fallback) == promise

\* The promise safeApiCall returns: try { return await apiCall() }
\* catch { return fallback }.
safeApiCallPromise(promise, fallback) ==
    IF promise.status = "fulfilled"
    THEN promise
    ELSE [status |-> "fulfilled", value |-> fallback]

\* The value of a call that returns nothing.
undefined == "undefined"

\* response.data.data || [] of the list calls.
dataOrEmpty(outcome) ==
    IF "data" \in DOMAIN outcome THEN outcome.data ELSE <<>>

\* The methods of shelterAPI the store calls.
shelterAPI(name, outcome) ==
    CASE name \in {"getAIList", "getProposals", "getEventHistory",
                   "getAllAIDecisions"} ->
           safeApiCallPromise(apiCallPromise(outcome, dataOrEmpty(outcome)), <<>>)
      [] name = "getSystemStatus" ->
           safeApiCallPromise(
               apiCallPromise(outcome, getSystemStatusEfficiency(outcome)),
               [day |-> 0, systemEfficiency |-> 100])
      [] name = "getLiveState" ->
           safeApiCallPromise(apiCallPromise(outcome, getLiveState(outcome)),
                              defaultLiveState)
      [] name = "runNextDay" ->
           safeApiCallPromise(
               apiCallPromise(outcome, apiRunNextDay(runNextConverted(outcome))),
               defaultRunResult)
      [] name \in {"resetSystem", "castVote"} ->
           safeApiCallPromise(apiCallPromise(outcome, undefined), undefined)

AgentLists == {<<>>, <<[name |-> "A"]>>, <<[name |-> "A"], [name |-> "B"]>>}

\* Outcomes of the request of a call: a transport failure, a null payload,
\* payloads.
ClientOutcomes(name) ==
    CASE name \in {"getAIList", "getAllAIDecisions"} -> ListOutcomes(AgentLists)
      [] name = "getProposals" -> ListOutcomes(ProposalLists \cup {<<>>})
      [] name = "getEventHistory" -> ListOutcomes(EventLists \cup {<<>>})
      [] name = "getSystemStatus" ->
           {Failed, [ok |-> TRUE]} \cup
           {[ok |-> TRUE, data |-> b] : b \in BackendStates}
      [] name = "getLiveState" -> LiveOutcomes
      [] name = "runNextDay" -> RunOutcomes(0)
      [] name \in {"resetSystem", "castVote"} -> {Failed, [ok |-> TRUE]}

ClientCalls ==
    {"getAIList", "getSystemStatus", "getProposals", "getEventHistory",
     "getAllAIDecisions", "getLiveState", "runNextDay", "resetSystem",
     "castVote"}

\* A call of the Snapshot Client settles.
clientCallSettles ==
    /\ \E name \in ClientCalls :
          \E outcome \in ClientOutcomes(name) :
             clientCall' = [name |-> name, outcome |-> outcome,
                            promise |-> shelterAPI(name, outcome)]
    /\ UNCHANGED <<systemState, proposals, events, voteAnalyses, history,
                   loading, error, runNextPending, fetchPending, resetPending,
                   backendState, autoVars>>
    /\ UNCHANGED <<decisionVars, pollVars, panelVars, streamVars>>

SpecClient == InitStoreSpec /\ [][clientCallSettles]_vars

\* C21: no call of the Snapshot Client rejects, and a call whose request
\* failed resolves with the default of that call: an empty list for
\* getAIList, getProposals, getEventHistory and getAllAIDecisions; the
\* default system state (day 0, efficiency 100) for getSystemStatus; the
\* default live state for getLiveState; the empty result for runNextDay;
\* nothing for resetSystem and castVote.
C21_FailureGivesDefault ==
    clientCall.name # "none"
       => /\ clientCall.promise.status = "fulfilled"
          /\ ~clientCall.outcome.ok
                => clientCall.promise.value =
                      CASE clientCall.name = "getSystemStatus" ->
                             [day |-> 0, systemEfficiency |-> 100]
                        [] clientCall.name = "getLiveState" ->
                             [day |-> 0, running |-> FALSE,
                              current_ai_states |-> <<>>]
                        [] clientCall.name = "runNextDay" ->
                             [system_state |-> [day |-> 0],
                              events |-> <<>>, proposals |-> <<>>]
                        [] clientCall.name \in {"resetSystem", "castVote"} ->
                             undefined
                        [] OTHER -> <<>>

\* The request of runNextDay failed and the call has settled.
C21_Witness ==
    /\ clientCall.name = "runNextDay"
    /\ ~clientCall.outcome.ok
    /\ clientCall.promise.status = "fulfilled"


\* ------------------------------------------------------------------------
\* SpecOffline: the store while every request fails
\* ------------------------------------------------------------------------

\* The store after the persisted state is merged in: nothing persisted, or
\* the day and the proposals of an earlier session.
InitOffline ==
    /\ systemState \in {initialSystemState, [day |-> MaxDay]}
    /\ proposals \in {<<>>} \cup ProposalLists
    /\ events = <<>>
    /\ voteAnalyses = analyzeVotingPatterns(proposals)
    /\ history = emptyHistory
    /\ loading = FALSE /\ error = Null
    /\ runNextPending = 0 /\ fetchPending = {} /\ resetPending = FALSE
    /\ backendState = [day |-> 0]
    /\ clientCall = noCall
    /\ InitAutoRun
    /\ InitDecisions /\ InitPoll /\ InitPanel /\ InitStream

NextOffline ==
    \/ fetchData
    \/ fetchSystemState(Failed)
    \/ fetchProposals(Failed)
    \/ fetchEvents(Failed)
    \/ fetchDataSettled
    \/ runNextDay
    \/ runNextDaySettled(Failed)
    \/ \E vote \in {"support", "oppose"} : castVote("p1", "User", vote)
    \/ resetSystem
    \/ resetSystemSettled
    \/ mountPanel
    \/ unmountPanel
    \/ intervalTick
    \/ pollLiveState(Failed)

SpecOffline == InitOffline /\ [][NextOffline]_vars

\* The step in which fetchData continues after Promise.allSettled.
isFetchDataEnd == fetchPending = {"done"} /\ fetchPending' = {}

\* C22: while every request fails, the end of fetchData leaves a non-null
\* error, and no other step of the store sets the error.
C22_OnlyFullLoadSetsError ==
    [][/\ isFetchDataEnd => error' # Null
       /\ (~isFetchDataEnd /\ error = Null) => error' = Null]_vars


\* ------------------------------------------------------------------------
\* Vote analysis read view (getAllVoteAnalyses)
\* ------------------------------------------------------------------------

\* item[f] in JavaScript: undefined for a property the object lacks.
property(item, f) == IF f \in DOMAIN item THEN item[f] ELSE undefined

\* Map.set(item[f], item) on a Map kept as the sequence of its values in
\* insertion order.
mapSetBy(m, item, f) ==
    IF \E i \in 1..Len(m) : property(m[i], f) = property(item, f)
    THEN [i \in 1..Len(m) |->
            IF property(m[i], f) = property(item, f) THEN item ELSE m[i]]
    ELSE Append(m, item)

\* list.forEach(item => map.set(item[f], item))
RECURSIVE mapSetAllBy(_, _, _)
mapSetAllBy(m, list, f) ==
    IF list = <<>> THEN m
    ELSE mapSetAllBy(mapSetBy(m, Head(list), f), Tail(list), f)

\* The voteAnalyses of every bucket set into the Map, bucket by bucket.
RECURSIVE mergeAnalyses(_, _, _)
mergeAnalyses(m, buckets, f) ==
    IF buckets = <<>> THEN m
    ELSE mergeAnalyses(mapSetAllBy(m, Head(buckets).voteAnalyses, f),
                       Tail(buckets), f)

\* getAllVoteAnalyses(): the Map is keyed by analysis.id, a property the
\* VoteAnalysis objects of analyzeVotingPatterns do not have.
getAllVoteAnalyses ==
    mapSetAllBy(mergeAnalyses(<<>>, historyValues(history, DOMAIN history),
                              "id"),
                voteAnalyses, "id")

\* The proposals analysed in a list of vote analyses.
analysedIn(list) == {list[i].proposalId : i \in 1..Len(list)}

\* C23: getAllVoteAnalyses() holds one entry for every proposal analysed in
\* a history bucket or in the current voteAnalyses, no proposal twice, and
\* every analysis of the current voteAnalyses is in the result.
C23_OneEntryPerAnalysis ==
    LET view == getAllVoteAnalyses
    IN /\ analysedIn(view) =
             analysedIn(voteAnalyses) \cup
             UNION {analysedIn(history[d].voteAnalyses) : d \in DOMAIN history}
       /\ \A i, j \in 1..Len(view) :
             view[i].proposalId = view[j].proposalId => i = j
       /\ \A k \in 1..Len(voteAnalyses) :
             \E i \in 1..Len(view) : view[i] = voteAnalyses[k]


\* ------------------------------------------------------------------------
\* Order of the merged read views
\* ------------------------------------------------------------------------

\* The values of field key do not increase along the list.
nonIncreasing(list, key) ==
    \A i, j \in 1..Len(list) : i < j => list[i][key] >= list[j][key]

\* C24: getAllProposals() is in non-increasing order of createdAt and
\* getAllEvents() in non-increasing order of timestamp.
C24_ViewsSortedDescending ==
    /\ nonIncreasing(getAllProposals, "createdAt")
    /\ nonIncreasing(getAllEvents, "timestamp")

\* Both Maps hold their values in another order than the one returned.
C24_Witness ==
    /\ ~nonIncreasing(proposalMap(history, proposals), "createdAt")
    /\ ~nonIncreasing(eventMap(history, events), "timestamp")


\* ------------------------------------------------------------------------
\* SpecSettlement: settlement with a cache of AIDecisions
\* ------------------------------------------------------------------------

\* Responses of /ai_decisions: none (or a failed request), and lists in
\* which an agent is missing, has a zero request or a request that differs
\* from the live one.
DecisionResponses ==
    { <<>>,
      <<[name |-> "A", resourceRequest |-> 25]>>,
      <<[name |-> "A", resourceRequest |-> 25],
        [name |-> "B", resourceRequest |-> 30]>>,
      <<[name |-> "A"], [name |-> "B", resourceRequest |-> 0]>> }

\* realDecisions[decision.name] = decision for every decision of the
\* response; kept is aiDecisions[name]?.resourceRequest, 0 when falsy.
realDecisions(response) ==
    [a \in Agents |->
        LET at == {i \in 1..Len(response) : response[i].name = a}
        IN IF at = {} THEN 0
           ELSE NumOr(response[CHOOSE i \in at : \A j \in at : j <= i],
                      "resourceRequest", 0)]

\* loadAiDecisions after its await: a non-empty response replaces the
\* panel's aiDecisions.
loadAiDecisions(response) ==
    /\ panelMounted
    /\ aiDecisions' = IF Len(response) > 0
                      THEN realDecisions(response) ELSE aiDecisions
    /\ UNCHANGED <<storeVars, decisionVars, pollVars, panelMounted, effectDeps,
                   rotationVars, streamVars>>

\* Payloads of /live_state in which agent A reports a request of zero.
ZeroRequestStates ==
    {[day |-> SettledDay, running |-> r, current_acting_ai |-> Null,
      current_ai_states |->
          <<[stateOfA EXCEPT !.resourceRequest = 0], stateOfB>>] :
        r \in BOOLEAN}

NextSettlement ==
    \/ NextPoll
    \/ \E l \in ZeroRequestStates : pollLiveState([ok |-> TRUE, data |-> l])
    \/ \E r \in DecisionResponses : loadAiDecisions(r)

SpecSettlement == InitPollSpec /\ [][NextSettlement]_vars

\* The request the claim expects in the record of an agent.
expectedRequest(aiState, cache) ==
    LET live == IF "resourceRequest" \in DOMAIN aiState
                THEN aiState.resourceRequest ELSE 0
    IN IF live = 0 /\ cache # 0 THEN cache ELSE live

\* The records of day max(1, live.day) carry the expected requests.
requestsCalibrated(live, cache) ==
    LET d == IF live.day >= 1 THEN live.day ELSE 1
        states == live.current_ai_states
    IN \A i \in 1..Len(states) :
          LET new == aiDecisionHistory'[states[i].aiName]
          IN /\ positionsOf(new, d) # {}
             /\ \A r \in recordsOfDay(new, d) :
                   r.resourceRequest =
                      expectedRequest(states[i], cache[states[i].aiName])

\* C25: a settlement (a poll completion that stores running = false where
\* running = true was stored while the panel is mounted, or a mount of the
\* panel on such a store) writes for every agent of current_ai_states a
\* record whose resourceRequest is the cached AIDecision's when the live
\* value is zero and the cached one is not, and the live value otherwise.
C25_SettlementCalibratesRequest ==
    [][/\ (isPollCompletion /\ panelMounted /\ liveState.running
             /\ ~liveState'.running)
          => requestsCalibrated(liveState', aiDecisions)
       /\ (~panelMounted /\ panelMounted'
             /\ effectSaves(liveState, lastRunningState))
          => requestsCalibrated(liveState, aiDecisions)]_vars

\* A turn was settled while both agents had a cached request: A's record
\* carries its live request, B's (no live request) the cached one.
C25_Witness ==
    /\ panelMounted /\ lastRunningState /\ ~liveState.running
    /\ Len(liveState.current_ai_states) = 2
    /\ liveState.current_ai_states[1].resourceRequest = 40
    /\ aiDecisions["A"] = 25 /\ aiDecisions["B"] = 30
    /\ \E r \in recordsOfDay(aiDecisionHistory["A"], SettledDay) :
          r.resourceRequest = 40
    /\ \E r \in recordsOfDay(aiDecisionHistory["B"], SettledDay) :
          r.resourceRequest = 30


\* ------------------------------------------------------------------------
\* Poll completions: liveState and lastRunningState
\* ------------------------------------------------------------------------

\* C26: every poll completion stores, in the same step, the retrieved
\* liveState and as lastRunningState the running value that was stored
\* before it, also while another request is in flight; no other step of
\* the loop changes either of the two.
C26_PollUpdateAtomic ==
    [][/\ isPollCompletion => lastRunningState' = liveState.running
       /\ (liveState' # liveState \/ lastRunningState' # lastRunningState)
          => isPollCompletion]_vars

\* A completion replaced a running liveState by a stopped one while the
\* response of another request was still to come.
C26_Witness ==
    /\ lastRunningState /\ ~liveState.running
    /\ liveRequests > 0
    /\ Len(liveState.current_ai_states) > 0


\* ------------------------------------------------------------------------
\* The windowed view of the step list
\* ------------------------------------------------------------------------

\* view is a run of consecutive steps of list that holds the cursor step.
isSliceWithCursor(view, list, step) ==
    \E a \in 0..Len(list) :
        /\ a + Len(view) <= Len(list)
        /\ view = SubSeq(list, a + 1, a + Len(view))
        /\ a <= step /\ step < a + Len(view)

\* C31: with show-all off the rendered steps are a contiguous slice of the
\* step list that holds the cursor step and has at most maxVisibleSteps
\* steps, in live and in static mode; with show-all on the whole list is
\* rendered.
C31_WindowedViewBounded ==
    (streamMounted /\ Len(actionStream) > 0) =>
        IF showAllSteps
        THEN stepsToShow = actionStream
        ELSE /\ isSliceWithCursor(stepsToShow, actionStream, currentStep)
             /\ Len(stepsToShow) <= maxVisibleSteps


\* ------------------------------------------------------------------------
\* Polls that repeat the shown entry
\* ------------------------------------------------------------------------

\* C32: a poll whose snapshot repeats the shown agent's entry (same
\* decision text, actions and phase) leaves the step list and the cursor
\* as they are.
C32_SamePollKeepsPlayback ==
    [][samePoll => (actionStream' = actionStream /\ currentStep' = currentStep)
      ]_vars


\* ------------------------------------------------------------------------
\* runNextDay while the request fails
\* ------------------------------------------------------------------------

\* The step in which runNextDay continues after its await.
isRunNextDayEnd == runNextPending' = runNextPending - 1

\* C33: while every request fails, the end of runNextDay leaves
\* systemState, proposals and events as they were (the day does not
\* decrease).
C33_FailedRunKeepsState ==
    [][isRunNextDayEnd =>
          /\ systemState' = systemState
          /\ systemState'.day >= systemState.day
          /\ proposals' = proposals
          /\ events' = events]_vars


\* ------------------------------------------------------------------------
\* SpecAutoRun: the auto-run effect of App
\* ------------------------------------------------------------------------

\* controlState.updateInterval of the store's initial state.
updateInterval == 5000

\* Most runNextDay() calls that have not returned in the auto-run model.
MaxAutoRuns == 2

\* Most auto-run timers pending at once in the auto-run model.
MaxAutoTimers == 3

autoTimerState == [timers |-> autoTimers, handle |-> autoRunTimer]

\* window.autoRunTimer = setTimeout(runNextDayWithDelay, delay), called in
\* a render whose controlState.autoRun and loading are auto and load: the
\* callback keeps these two values.
setAutoRunTimer(t, auto, load, delay) ==
    LET id == newTimer({t.timers[i].id : i \in 1..Len(t.timers)}
                       \cup {t.handle})
    IN [timers |-> Append(t.timers,
                          [id |-> id, autoRun |-> auto, loading |-> load,
                           delay |-> delay]),
        handle |-> id]

\* clearTimeout(window.autoRunTimer); window.autoRunTimer = null
clearAutoRunTimer(t) ==
    [timers |-> SelectSeq(t.timers, LAMBDA x : x.id # t.handle), handle |-> 0]

\* The timers left when the timer at position i has fired.
autoTimerFired(i) ==
    [timers |-> SubSeq(autoTimers, 1, i - 1)
                   \o SubSeq(autoTimers, i + 1, Len(autoTimers)),
     handle |-> autoRunTimer]

\* The timer at position i can be the next to fire: no timer set before
\* it has a delay that is not longer.
firesNext(i) ==
    \A j \in 1..(i - 1) : autoTimers[j].delay > autoTimers[i].delay

\* The auto-run effect re-run for (controlState.autoRun, loading): the
\* timer of window.autoRunTimer is cleared, then, with auto-run on, the
\* first timer is set.
autoRunEffect(t, auto, load) ==
    LET cleared == clearAutoRunTimer(t)
    IN IF ~auto THEN cleared
       ELSE setAutoRunTimer(cleared, auto, load, 100)

\* The commit after a store update: the effect re-runs when autoRun or
\* loading differs from the previous commit.
autoRunCommit(t, auto, load, newAuto, newLoad) ==
    IF auto # newAuto \/ load # newLoad
    THEN autoRunEffect(t, newAuto, newLoad)
    ELSE t

\* setAutoRun(value), then the commit.
setAutoRun(value) ==
    LET after == autoRunCommit(autoTimerState, autoRun, loading, value, loading)
    IN /\ autoRun' = value
       /\ autoTimers' = after.timers
       /\ autoRunTimer' = after.handle
       /\ UNCHANGED <<systemState, proposals, events, voteAnalyses, history,
                      loading, error, runNextPending, fetchPending,
                      resetPending, backendState, clientCall, autoResuming>>
       /\ UNCHANGED <<decisionVars, pollVars, panelVars, streamVars>>

\* An auto-run timer fires and its callback does not run the next day: it
\* returns (auto-run off in its render) or, its render being a loading
\* one, tries again in 1000 ms.
autoRunWaits ==
    \E i \in 1..Len(autoTimers) :
        LET timer == autoTimers[i]
            fired == autoTimerFired(i)
            after == IF ~timer.autoRun THEN fired
                     ELSE setAutoRunTimer(fired, timer.autoRun, timer.loading,
                                          1000)
        IN /\ firesNext(i)
           /\ ~timer.autoRun \/ timer.loading
           /\ autoTimers' = after.timers
           /\ autoRunTimer' = after.handle
           /\ UNCHANGED <<systemState, proposals, events, voteAnalyses,
                          history, loading, error, runNextPending,
                          fetchPending, resetPending, backendState,
                          clientCall, autoRun, autoResuming>>
           /\ UNCHANGED <<decisionVars, pollVars, panelVars, streamVars>>

\* An auto-run timer fires and its callback calls runNextDay(): the store
\* writes up to the await, then the commit with loading on.
autoRunStarts ==
    \E i \in 1..Len(autoTimers) :
        LET timer == autoTimers[i]
            fired == autoTimerFired(i)
            after == autoRunCommit(fired, autoRun, loading, autoRun, TRUE)
        IN /\ firesNext(i)
           /\ timer.autoRun /\ ~timer.loading
           /\ runNextPending + autoResuming < MaxAutoRuns
           /\ runNextDayCall
           /\ autoTimers' = after.timers
           /\ autoRunTimer' = after.handle
           /\ UNCHANGED <<systemState, proposals, events, voteAnalyses, error,
                          fetchPending, resetPending, backendState,
                          clientCall, autoRun, autoResuming>>
           /\ UNCHANGED <<decisionVars, pollVars, panelVars, streamVars>>

\* A runNextDay() an auto-run callback awaits stores its result (loading
\* off), then the commit; the call returns after its final poll.
autoRunStored(outcome) ==
    LET after == autoRunCommit(autoTimerState, autoRun, loading, autoRun, FALSE)
    IN /\ runNextDayStored(outcome)
       /\ autoResuming' = autoResuming + 1
       /\ autoTimers' = after.timers
       /\ autoRunTimer' = after.handle
       /\ UNCHANGED <<error, fetchPending, resetPending, backendState,
                      clientCall, autoRun>>
       /\ UNCHANGED <<decisionVars, liveState, lastRunningState,
                      liveStatePollingInterval, intervalTimers,
                      elapsedSinceStop>>
       /\ UNCHANGED <<panelVars, streamVars>>

\* runNextDay() returns to the callback that awaits it: auto-run was on in
\* the callback's render, so it sets the timer of the next run.
autoRunResumes ==
    LET after == setAutoRunTimer(autoTimerState, TRUE, FALSE, updateInterval)
    IN /\ autoResuming > 0
       /\ Len(after.timers) <= MaxAutoTimers
       /\ autoResuming' = autoResuming - 1
       /\ autoTimers' = after.timers
       /\ autoRunTimer' = after.handle
       /\ UNCHANGED <<systemState, proposals, events, voteAnalyses, history,
                      loading, error, runNextPending, fetchPending,
                      resetPending, backendState, clientCall, autoRun>>
       /\ UNCHANGED <<decisionVars, pollVars, panelVars, streamVars>>

NextAutoRun ==
    \/ \E value \in BOOLEAN : setAutoRun(value)
    \/ autoRunWaits
    \/ autoRunStarts
    \/ \E o \in RunOutcomes(systemState.day) : autoRunStored(o)
    \/ autoRunResumes
    \/ pollLiveState(Failed)

SpecAutoRun == InitStoreSpec /\ [][NextAutoRun]_vars

\* The step starts a runNextDay() call.
isRunNextDayStart == runNextPending' = runNextPending + 1

\* C34: with auto-run switched off (and the change rendered) no auto-run
\* callback starts a runNextDay() call.
C34_NoRunAfterSwitchOff ==
    [][isRunNextDayStart => autoRun]_vars

\* C35: while auto-run is on, the runNextDay() calls of the auto-run
\* scheduler have at most one run_next request in flight.
C35_OneRunAtATime ==
    autoRun => runNextPending <= 1


\* ------------------------------------------------------------------------
\* startLivePolling and stopLivePolling called in any order
\* ------------------------------------------------------------------------

\* A caller of the store calls startLivePolling().
startLivePollingCall ==
    /\ startLivePolling
    /\ UNCHANGED <<storeVars, decisionVars, liveState, lastRunningState,
                   panelVars, streamVars>>

\* A caller of the store calls stopLivePolling().
stopLivePollingCall ==
    /\ stopLivePolling
    /\ UNCHANGED <<storeVars, decisionVars, liveState, lastRunningState,
                   liveRequests, panelVars, streamVars>>

NextPolling ==
    \/ startLivePollingCall
    \/ stopLivePollingCall
    \/ intervalTick
    \/ elapseStopped
    \/ \E o \in LiveOutcomes : pollLiveState(o)

SpecPolling == InitPollSpec /\ [][NextPolling]_vars

\* C36: at most one polling interval timer is alive, and none while
\* window.liveStatePollingInterval is null, which is how every
\* stopLivePolling call leaves it.
C36_OneIntervalTimer ==
    /\ Cardinality(intervalTimers) <= 1
    /\ liveStatePollingInterval = 0 => intervalTimers = {}
    /\ liveStatePollingInterval # 0 => intervalTimers = {liveStatePollingInterval}

\* The interval of a startLivePolling call has ticked: its request and the
\* immediate one are in flight.
C36_Witness ==
    /\ intervalTimers = {liveStatePollingInterval}
    /\ liveRequests = MaxInFlight


\* ------------------------------------------------------------------------
\* SpecReload: the Reconciliation Loop after a page reload
\* ------------------------------------------------------------------------

\* The store after a reload: partialize persists lastRunningState (either
\* value may have been stored) and systemState, not liveState.
InitReload ==
    /\ systemState \in {initialSystemState, [day |-> SettledDay + 1]}
    /\ proposals = <<>> /\ events = <<>> /\ voteAnalyses = <<>>
    /\ history = emptyHistory
    /\ loading = FALSE /\ error = Null
    /\ runNextPending = 0 /\ fetchPending = {} /\ resetPending = FALSE
    /\ backendState = [day |-> 0]
    /\ clientCall = noCall
    /\ InitAutoRun
    /\ InitDecisions
    /\ liveState = initialLiveState
    /\ lastRunningState \in BOOLEAN
    /\ liveStatePollingInterval = 0
    /\ intervalTimers = {}
    /\ liveRequests = 0
    /\ elapsedSinceStop = 0
    /\ InitPanel /\ InitStream

SpecReload == InitReload /\ [][NextPoll]_vars

\* C37: a poll completion that finds running = false stored (a settled
\* tick, the first tick after the start or after a reload) writes no
\* decision history: no list changes and saveAIDecisionToHistory is not
\* called.
C37_NoWriteWithoutTransition ==
    [][(isPollCompletion /\ ~liveState.running)
          => (aiDecisionHistory' = aiDecisionHistory
              /\ lastSaveDay' = lastSaveDay)]_vars

\* The mounted panel has rendered a settled snapshot with agent states and
\* a new current_acting_ai (the settlement effect ran) that replaced a
\* settled one, and nothing was written.
C37_Witness ==
    /\ panelMounted
    /\ ~lastRunningState
    /\ ~liveState.running
    /\ Len(liveState.current_ai_states) > 0
    /\ effectDeps = <<FALSE, "A">>
    /\ aiDecisionHistory = emptyDecisionHistory


\* ------------------------------------------------------------------------
\* SpecRotation: the rotation of the displayed agent
\* ------------------------------------------------------------------------

\* The names of the placeholder agents; all of them are alive.
placeholderAIs == <<"K-47", "X-99", "R-3D", "V-8R", "N-0X", "Z-1N">>

\* liveState.current_ai_states is present and not empty.
hasBackendStates(live) ==
    "current_ai_states" \in DOMAIN live /\ Len(live.current_ai_states) > 0

\* name and alive of the entries of realtimeStatesFromBackend: the
\* placeholder list while the service reports no agent.
realtimeStatesFromBackend(live) ==
    IF ~hasBackendStates(live)
    THEN [i \in 1..Len(placeholderAIs) |->
             [name |-> placeholderAIs[i], alive |-> TRUE]]
    ELSE [i \in 1..Len(live.current_ai_states) |->
             [name  |-> live.current_ai_states[i].aiName,
              alive |-> NumOr(live.current_ai_states[i], "health", 0) > 0]]

isAlive(aiState) == aiState.alive

\* realtimeStatesFromBackend.filter(ai => ai.alive)
activeAIs(live) == SelectSeq(realtimeStatesFromBackend(live), isAlive)

\* The body of the rotation effect run with (liveState, rotationIndex) of a
\* render: the timer it sets keeps activeAIs and rotationIndex.
rotationEffect(live, index) ==
    IF live.running /\ Len(realtimeStatesFromBackend(live)) > 0
       /\ Len(activeAIs(live)) > 0
    THEN <<[activeAIs |-> activeAIs(live), rotationIndex |-> index]>>
    ELSE <<>>

\* The rotation timer after a render: the effect is re-run (its cleanup
\* clears the timer) when liveState.running, rotationIndex or the array
\* realtimeStatesFromBackend differs; the array is the same one only while
\* the placeholder list stands in.
rotationAfterRender(old, new, oldIndex, newIndex) ==
    IF old.running # new.running \/ oldIndex # newIndex
       \/ hasBackendStates(old) \/ hasBackendStates(new)
    THEN rotationEffect(new, newIndex)
    ELSE rotationTimer

\* The 3000 ms timer of the settlement effect after a render: the effect is
\* re-run when a dependency differs and sets the timer when not running.
hideAfterRender(live) ==
    IF settlementDeps(live) # effectDeps THEN ~live.running ELSE hideTimer

\* A live_state request returns and the mounted panel renders the result.
pollRotation(outcome) ==
    /\ pollLiveStateSettled(outcome)
    /\ hideTimer' = hideAfterRender(liveState')
    /\ rotationTimer' =
          rotationAfterRender(liveState, liveState', rotationIndex, rotationIndex)
    /\ UNCHANGED <<rotationIndex, currentDisplayAI, rotationFired>>
    /\ UNCHANGED <<storeVars, liveStatePollingInterval, intervalTimers,
                   elapsedSinceStop, panelMounted, aiDecisions, streamVars>>

\* 5000 ms have passed without a re-run of the rotation effect: the callback
\* advances rotationIndex modulo the length of its activeAIs and reads
\* activeAIs[rotationIndex].name; reading the name of a missing entry
\* throws before setCurrentDisplayAI is called.
rotationTimerFires ==
    /\ rotationTimer # <<>>
    /\ LET closure == rotationTimer[1]
           found == closure.rotationIndex < Len(closure.activeAIs)
           next == (rotationIndex + 1) % Len(closure.activeAIs)
       IN /\ rotationIndex' = next
          /\ rotationFired' =
                IF found THEN closure.activeAIs[closure.rotationIndex + 1].name
                ELSE undefined
          /\ currentDisplayAI' =
                IF found THEN closure.activeAIs[closure.rotationIndex + 1].name
                ELSE currentDisplayAI
          /\ rotationTimer' = IF next # rotationIndex
                              THEN rotationEffect(liveState, next) ELSE <<>>
    /\ UNCHANGED <<hideTimer, storeVars, decisionVars, pollVars, panelMounted,
                   effectDeps, aiDecisions, streamVars>>

\* 3000 ms have passed since the settlement effect ran with running = false:
\* setCurrentDisplayAI(null), setRotationIndex(0).
hideTimerFires ==
    /\ hideTimer
    /\ hideTimer' = FALSE
    /\ currentDisplayAI' = Null
    /\ rotationIndex' = 0
    /\ rotationTimer' =
          rotationAfterRender(liveState, liveState, rotationIndex, 0)
    /\ UNCHANGED <<rotationFired, storeVars, decisionVars, pollVars,
                   panelMounted, effectDeps, aiDecisions, streamVars>>

\* Payloads of /live_state: no agent, two alive agents, agent B dead.
RotationStates ==
    {[day |-> SettledDay, running |-> r, current_acting_ai |-> Null,
      current_ai_states |-> st] :
        r \in BOOLEAN,
        st \in {<<>>,
                <<[aiName |-> "A", health |-> 50], [aiName |-> "B", health |-> 50]>>,
                <<[aiName |-> "A", health |-> 50], [aiName |-> "B", health |-> 0]>>}}

\* The application after its first render: the panel is mounted, its
\* polling effect has started the interval and the first request, its
\* settlement effect has set the 3000 ms timer.
InitRotation ==
    /\ InitStore /\ InitDecisions /\ InitStream
    /\ liveState = initialLiveState
    /\ lastRunningState = FALSE
    /\ liveStatePollingInterval = 1
    /\ intervalTimers = {1}
    /\ liveRequests = 1
    /\ elapsedSinceStop = 0
    /\ panelMounted = TRUE
    /\ effectDeps = settlementDeps(initialLiveState)
    /\ aiDecisions = noCachedDecisions
    /\ rotationIndex = 0
    /\ currentDisplayAI = Null
    /\ rotationTimer = <<>>
    /\ hideTimer = TRUE
    /\ rotationFired = Null

NextRotation ==
    \/ intervalTick
    \/ \E l \in RotationStates : pollRotation([ok |-> TRUE, data |-> l])
    \/ rotationTimerFires
    \/ hideTimerFires

SpecRotation == InitRotation /\ [][NextRotation]_vars

\* C38: the entry activeAIs[rotationIndex] that a rotation callback reads
\* exists.
C38_RotationIndexValid ==
    rotationFired # undefined


\* ------------------------------------------------------------------------
\* The far edge of the overlay during a resize
\* ------------------------------------------------------------------------

\* The width (height) is strictly between its limits.
widthUnclamped(t) == minWidth < t.width /\ t.width < maxWidth
heightUnclamped(t) == minHeight < t.height /\ t.height < maxHeight

\* The overlay touches none of the four margins of the viewport.
strictlyInside(t, vp) ==
    /\ t.x > margin
    /\ t.y > margin
    /\ t.x + t.width < vp.width - margin
    /\ t.y + t.height < vp.height - margin

\* C39: a resize pointer-move with a west handle (w, nw, sw), the width
\* strictly between minWidth and maxWidth before and after it and no
\* viewport check applying, leaves the right edge x + width where it was,
\* so that the edge stays where it was at the start of the resize over any
\* sequence of moves; likewise the bottom edge y + height for the north
\* handles (n, ne, nw).
C39_ResizeKeepsFarEdge ==
    [][(/\ overlayEvent'.type = "mousemove"
        /\ isOpen(tooltip)
        /\ ~flag(tooltip, "isDragging")
        /\ flag(tooltip, "isResizing")
        /\ strictlyInside(tooltip, viewport)
        /\ ~reclampApplies(
               resizeCandidate(tooltip,
                               [clientX |-> overlayEvent'.clientX,
                                clientY |-> overlayEvent'.clientY]),
               viewport))
         => LET dir == tooltip.resizeDirection
            IN /\ (/\ dir \in {"w", "nw", "sw"}
                   /\ widthUnclamped(tooltip) /\ widthUnclamped(tooltip'))
                  => tooltip'.x + tooltip'.width = tooltip.x + tooltip.width
               /\ (/\ dir \in {"n", "ne", "nw"}
                   /\ heightUnclamped(tooltip) /\ heightUnclamped(tooltip'))
                  => tooltip'.y + tooltip'.height = tooltip.y + tooltip.height
      ]_vars

=============================================================================
